---- MODULE Spec2Model ----
(***************************************************************************)
(* Zero-configuration builder and route detection (detectBuilders).        *)
(*                                                                         *)
(* A JavaScript string is a sequence of one-character strings, so that     *)
(* split, startsWith, path.parse, the regular-expression replacements and  *)
(* the generated route patterns are computed character by character.       *)
(* An optional value (undefined / null) is a record [some, val].           *)
(* A local operator with parameters, LET F(x) == ... IN F(e), names the    *)
(* value of e the way a `const` does.                                      *)
(***************************************************************************)
EXTENDS Integers, Sequences, FiniteSets, TLC

\* ------------------------------------------------------------------------
\* Strings
\* ------------------------------------------------------------------------

Undef == [some |-> FALSE, val |-> <<>>]

Some(s) == [some |-> TRUE, val |-> s]

\* truthiness of an optional string
Truthy(x) == x.some /\ x.val # <<>>

\* value of `x || d` for an optional string x (undefined and '' are falsy)
OrElse(x, d) == IF Truthy(x) THEN x.val ELSE d

Drop(s, n) == SubSeq(s, n + 1, Len(s))

StartsWith(s, p) == Len(p) <= Len(s) /\ SubSeq(s, 1, Len(p)) = p

EndsWith(s, p) == Len(p) <= Len(s) /\ SubSeq(s, Len(s) - Len(p) + 1, Len(s)) = p

Includes(s, p) == \E k \in 0..(Len(s) - Len(p)) : SubSeq(s, k + 1, k + Len(p)) = p

\* 1-based index of the first / last occurrence of character c, 0 when absent
IndexOf(s, c) ==
  IF \E k \in 1..Len(s) : s[k] = c
  THEN CHOOSE k \in 1..Len(s) : s[k] = c /\ \A j \in 1..(k - 1) : s[j] # c
  ELSE 0

LastIndexOf(s, c) ==
  IF \E k \in 1..Len(s) : s[k] = c
  THEN CHOOSE k \in 1..Len(s) : s[k] = c /\ \A j \in (k + 1)..Len(s) : s[j] # c
  ELSE 0

RECURSIVE Split(_, _)
\* String.prototype.split(c): always at least one part
Split(s, c) ==
  LET At(k) == IF k = 0 THEN <<s>>
               ELSE <<SubSeq(s, 1, k - 1)>> \o Split(SubSeq(s, k + 1, Len(s)), c)
  IN At(IndexOf(s, c))

RECURSIVE Join(_, _)
\* Array.prototype.join(sep)
Join(parts, sep) ==
  IF parts = <<>> THEN <<>>
  ELSE IF Len(parts) = 1 THEN parts[1]
  ELSE parts[1] \o sep \o Join(Tail(parts), sep)

\* the string of n characters c
Repeat(c, n) == [k \in 1..n |-> c]

RECURSIVE SquashSlashes(_)
\* replace(/\/{2,}/g, '/')
SquashSlashes(s) ==
  IF s = <<>> THEN <<>>
  ELSE IF Len(s) >= 2 /\ s[1] = "/" /\ s[2] = "/" THEN SquashSlashes(Tail(s))
  ELSE <<s[1]>> \o SquashSlashes(Tail(s))

\* ------------------------------------------------------------------------
\* String literals of the source, as character tuples
\* ------------------------------------------------------------------------

T_Dot_Dot ==  \* ..
  <<".", ".">>

T_Rp_Q ==  \* )?
  <<")", "?">>

T_Hat_Sl ==  \* ^/
  <<"^", "/">>

T_includeFiles ==  \* includeFiles
  <<"i", "n", "c", "l", "u", "d", "e", "F", "i", "l", "e", "s">>

T_excludeFiles ==  \* excludeFiles
  <<"e", "x", "c", "l", "u", "d", "e", "F", "i", "l", "e", "s">>

T_pages_Sl ==  \* pages/
  <<"p", "a", "g", "e", "s", "/">>

T_src_Sl_pages ==  \* src/pages
  <<"s", "r", "c", "/", "p", "a", "g", "e", "s">>

T_Sl_Dlr_1 ==  \* /$1
  <<"/", "$", "1">>

T_Sl_Star_Star_Sl_Star ==  \* /**/*
  <<"/", "*", "*", "/", "*">>

\* ------------------------------------------------------------------------
\* Path / segment utilities
\* ------------------------------------------------------------------------

\* path.parse of a relative posix path without a trailing slash
parsePath(p) ==
  LET Parsed(dir, base, ext) ==
        [dir |-> dir, base |-> base, ext |-> ext,
         name |-> SubSeq(base, 1, Len(base) - Len(ext))]
      WithDot(dir, base, dot) ==
        Parsed(dir, base,
               IF dot <= 1 \/ base = T_Dot_Dot THEN <<>> ELSE SubSeq(base, dot, Len(base)))
      WithBase(dir, base) == WithDot(dir, base, LastIndexOf(base, "."))
      WithSlash(slash) ==
        WithBase(IF slash = 0 THEN <<>>
                 ELSE IF slash = 1 THEN <<"/">>
                 ELSE SubSeq(p, 1, slash - 1),
                 SubSeq(p, slash + 1, Len(p)))
  IN WithSlash(LastIndexOf(p, "/"))

extname(p) == parsePath(p).ext

\* Takes a filename or foldername, strips the extension, gets the part
\* between the "[]" brackets; null if there are no brackets
getSegmentName(segment) ==
  LET Named(name) ==
        IF Len(name) >= 1 /\ name[1] = "[" /\ name[Len(name)] = "]"
        THEN Some(SubSeq(name, 2, Len(name) - 1))
        ELSE Undef
  IN Named(parsePath(segment).name)

joinPath(a, b) == SquashSlashes(a \o <<"/">> \o b)

\* Faulty variant of ReplacePlaceholder: the first '[' up to the first ']'
\* after it, leaving a second placeholder of the segment in place
ReplaceFirstPlaceholder(part) ==
  LET Replaced(open, close) ==
        IF open > 0 /\ close > 0
        THEN SubSeq(part, 1, open - 1) \o <<"1">>
               \o SubSeq(part, open + close + 1, Len(part))
        ELSE part
      From(open) == Replaced(open, IndexOf(Drop(part, open), "]"))
  IN From(IndexOf(part, "["))

\* part.replace(/\[.*\]/, '1'): the first '[' up to the last ']' after it
ReplacePlaceholder(part) ==
  LET Replaced(open, close) ==
        IF open > 0 /\ close > open
        THEN SubSeq(part, 1, open - 1) \o <<"1">> \o SubSeq(part, close + 1, Len(part))
        ELSE part
  IN Replaced(IndexOf(part, "["), LastIndexOf(part, "]"))

RECURSIVE ReplaceAll(_)
\* parts.map(part => part.replace(/\[.*\]/, '1'))
ReplaceAll(parts) ==
  IF parts = <<>> THEN <<>>
  ELSE <<ReplacePlaceholder(parts[1])>> \o ReplaceAll(Tail(parts))

getAbsolutePath(unresolvedPath) ==
  LET Resolved(pp) == Join(ReplaceAll(Split(joinPath(pp.dir, pp.name), "/")), <<"/">>)
  IN Resolved(parsePath(unresolvedPath))

\* ------------------------------------------------------------------------
\* Conflict detector
\* ------------------------------------------------------------------------

RECURSIVE ConflictScan(_, _)
\* names are collected left to right (an empty name is never collected);
\* the result is the first name met again, or null
ConflictScan(segs, seen) ==
  LET Step(name) ==
        IF name.some /\ name.val \in seen THEN name
        ELSE ConflictScan(Tail(segs), IF Truthy(name) THEN seen \cup {name.val} ELSE seen)
  IN IF segs = <<>> THEN Undef ELSE Step(getSegmentName(segs[1]))

\* Checks if a placeholder with the same name is used multiple times inside
\* the same path
getConflictingSegment(filePath) == ConflictScan(Split(filePath, "/"), {})

RECURSIVE PartialScan(_, _, _)
PartialScan(short, long, index) ==
  LET Step(segmentShort, segmentLong, nameShort, nameLong) ==
        IF segmentShort # segmentLong /\ (~Truthy(nameLong) \/ ~Truthy(nameShort))
        THEN FALSE
        ELSE IF nameLong # nameShort THEN TRUE
        ELSE PartialScan(short, long, index + 1)
  IN IF index > Len(short) THEN FALSE
     ELSE Step(short[index], long[index],
               getSegmentName(short[index]), getSegmentName(long[index]))

\* Check if the path partially matches and has the same name for the path
\* segment at the same position
partiallyMatches(pathA, pathB) ==
  LET Scan(partsA, partsB) ==
        IF Len(partsA) > Len(partsB) THEN PartialScan(partsB, partsA, 1)
        ELSE PartialScan(partsA, partsB, 1)
  IN Scan(Split(pathA, "/"), Split(pathB, "/"))

\* Faulty variant of pathOccurrences: the paths are compared as written,
\* without their extension, the placeholders left unresolved
pathOccurrencesUnresolved(fileName, files) ==
  LET Bare(pp) == joinPath(pp.dir, pp.name)
  IN SelectSeq(files,
               LAMBDA file : /\ file # fileName
                             /\ Bare(parsePath(file)) = Bare(parsePath(fileName)))

\* Faulty variant of pathOccurrences: only the files listed before fileName,
\* those already classified, are scanned
pathOccurrencesAmongEarlier(fileName, files) ==
  LET Hits(earlier) ==
        SelectSeq(earlier,
                  LAMBDA file : /\ file # fileName
                                /\ \/ getAbsolutePath(file) = getAbsolutePath(fileName)
                                   \/ partiallyMatches(fileName, file))
  IN Hits(SubSeq(files, 1, (CHOOSE k \in 1..Len(files) : files[k] = fileName) - 1))

\* Counts how often a path occurs when all placeholders got resolved: the
\* files of the scanned list that conflict with fileName, in list order
pathOccurrences(fileName, files) ==
  LET Hits(currentAbsolutePath) ==
        SelectSeq(files,
                  LAMBDA file : /\ file # fileName
                                /\ \/ getAbsolutePath(file) = currentAbsolutePath
                                   \/ partiallyMatches(fileName, file))
  IN Hits(getAbsolutePath(fileName))

\* the memoization map after pathOccurrences(fileName, files): one entry for
\* fileName and one for every scanned file
CacheAfter(cache, fileName, files) ==
  cache \cup {<<f, getAbsolutePath(f)>> :
                f \in {fileName} \cup {files[k] : k \in 1..Len(files)}}

\* ------------------------------------------------------------------------
\* Route compiler
\* ------------------------------------------------------------------------

SpecialChars == {"[", "]", "^", "$", ".", "|", "?", "*", "+", "(", ")"}

RECURSIVE escapeName(_)
escapeName(name) ==
  IF name = <<>> THEN <<>>
  ELSE (IF name[1] \in SpecialChars THEN <<"\\", name[1]>> ELSE <<name[1]>>)
       \o escapeName(Tail(name))

Digits == <<"0", "1", "2", "3", "4", "5", "6", "7", "8", "9">>

RECURSIVE NumToStr(_)
\* template conversion `${n}` of a non-negative integer
NumToStr(n) ==
  IF n < 10 THEN <<Digits[n + 1]>> ELSE NumToStr(n \div 10) \o <<Digits[(n % 10) + 1]>>

S_index ==  \* index
  <<"i", "n", "d", "e", "x">>

S_capture ==  \* ([^/]+)
  <<"(", "[", "^", "/", "]", "+", ")">>

\* a rewrite rule { src, dest, check? }
SourceRoute(src, dest, check) ==
  [src |-> src, dest |-> Some(dest), check |-> check, status |-> 0,
   continue |-> FALSE, handle |-> "", location |-> Undef]

\* a status rule { src, status, continue? }
StatusRoute(src, status, cont) ==
  [src |-> src, dest |-> Undef, check |-> FALSE, status |-> status,
   continue |-> cont, handle |-> "", location |-> Undef]

\* a redirect { src, headers: { Location }, status }
RedirectRoute(src, location, status) ==
  [src |-> src, dest |-> Undef, check |-> FALSE, status |-> status,
   continue |-> FALSE, handle |-> "", location |-> Some(location)]

\* a phase marker { handle }
HandleRoute(h) ==
  [src |-> <<>>, dest |-> Undef, check |-> FALSE, status |-> 0,
   continue |-> FALSE, handle |-> h, location |-> Undef]

\* [..., ..., ...].filter(Boolean).join('|')
JoinNames(a, b, c) ==
  Join(SelectSeq(<<a, b, c>>, LAMBDA x : x # <<>>), <<"|">>)

\* Faulty variant of LastSegmentPattern: cleanUrls alone drops the
\* alternative that carries the extension
LastSegmentPatternCleanOnly(segment, featHandleMiss, cleanUrls) ==
  LET Pattern(fileName, ext) ==
        IF fileName = S_index
        THEN <<"(">>
             \o JoinNames(<<"/">>, <<"/">> \o escapeName(fileName),
                          IF cleanUrls THEN <<>>
                          ELSE <<"/">> \o escapeName(fileName) \o escapeName(ext))
             \o T_Rp_Q
        ELSE <<"(">>
             \o JoinNames(fileName \o <<"/">>, escapeName(fileName),
                          IF cleanUrls THEN <<>>
                          ELSE escapeName(fileName) \o escapeName(ext))
             \o <<")">>
      Parsed(pp) == Pattern(pp.name, pp.ext)
  IN Parsed(parsePath(segment))

\* the pattern of the last segment when it is no placeholder
LastSegmentPattern(segment, featHandleMiss, cleanUrls) ==
  LET Pattern(fileName, ext) ==
        IF fileName = S_index
        THEN <<"(">>
             \o JoinNames(<<"/">>, <<"/">> \o escapeName(fileName),
                          IF featHandleMiss /\ cleanUrls THEN <<>>
                          ELSE <<"/">> \o escapeName(fileName) \o escapeName(ext))
             \o T_Rp_Q
        ELSE <<"(">>
             \o JoinNames(fileName \o <<"/">>, escapeName(fileName),
                          IF featHandleMiss /\ cleanUrls THEN <<>>
                          ELSE escapeName(fileName) \o escapeName(ext))
             \o <<")">>
      Parsed(pp) == Pattern(pp.name, pp.ext)
  IN Parsed(parsePath(segment))

RECURSIVE SrcParts(_, _, _)
\* parts.map(...): the pattern of every segment
SrcParts(parts, featHandleMiss, cleanUrls) ==
  IF parts = <<>> THEN <<>>
  ELSE << IF getSegmentName(parts[1]).some THEN S_capture
          ELSE IF Len(parts) = 1
          THEN LastSegmentPattern(parts[1], featHandleMiss, cleanUrls)
          ELSE parts[1] >>
       \o SrcParts(Tail(parts), featHandleMiss, cleanUrls)

RECURSIVE Query(_, _)
\* the `name=$N` bindings of the placeholders, N counting from counter
Query(parts, counter) ==
  LET Bind(name) ==
        IF name.some
        THEN <<name.val \o <<"=", "$">> \o NumToStr(counter)>> \o Query(Tail(parts), counter + 1)
        ELSE Query(Tail(parts), counter)
  IN IF parts = <<>> THEN <<>> ELSE Bind(getSegmentName(parts[1]))

createRouteFromPath(filePath, featHandleMiss, cleanUrls) ==
  LET Route(srcParts, query, pp) ==
        LET Made(src, queryString) ==
              [route |->
                 IF featHandleMiss
                 THEN SourceRoute(src,
                                  <<"/">> \o SubSeq(filePath, 1, Len(filePath) - Len(pp.ext))
                                  \o queryString,
                                  TRUE)
                 ELSE SourceRoute(src, <<"/">> \o filePath \o queryString, FALSE),
               isDynamic |-> Len(query) > 0]
        IN Made(IF pp.name = S_index
                THEN T_Hat_Sl \o Join(SubSeq(srcParts, 1, Len(srcParts) - 1), <<"/">>)
                     \o srcParts[Len(srcParts)] \o <<"$">>
                ELSE T_Hat_Sl \o Join(srcParts, <<"/">>) \o <<"$">>,
                (IF Len(query) > 0 THEN <<"?">> ELSE <<>>) \o Join(query, <<"&">>))
      Compile(parts) ==
        Route(SrcParts(parts, featHandleMiss, cleanUrls), Query(parts, 1),
              parsePath(filePath))
  IN Compile(Split(filePath, "/"))

\* ------------------------------------------------------------------------
\* Sorting
\* ------------------------------------------------------------------------

\* primary collation order of the characters used in paths (punctuation,
\* then digits, then letters), as String.prototype.localeCompare orders them
Collation ==
  <<"_", "-", ".", "[", "]", "@", "*", "/", "$",
    "0", "1", "2", "3", "4", "5", "6", "7", "8", "9",
    "a", "b", "c", "d", "e", "f", "g", "h", "i", "j", "k", "l", "m",
    "n", "o", "p", "q", "r", "s", "t", "u", "v", "w", "x", "y", "z">>

CharRank(c) == IndexOf(Collation, c)

RECURSIVE localeCompare(_, _)
localeCompare(a, b) ==
  IF a = <<>> /\ b = <<>> THEN 0
  ELSE IF a = <<>> THEN -1
  ELSE IF b = <<>> THEN 1
  ELSE IF a[1] = b[1] THEN localeCompare(Tail(a), Tail(b))
  ELSE IF CharRank(a[1]) < CharRank(b[1]) THEN -1
  ELSE 1

\* We need to sort the file paths by alphabet to make sure the routes stay
\* in the same order
sortFiles(fileA, fileB) == localeCompare(fileA, fileB)

RECURSIVE countSegments(_, _)
\* segments.reduce((prev, segment) => getSegmentName(segment) ? prev + 1 : 0, prev)
countSegments(prev, segs) ==
  IF segs = <<>> THEN prev
  ELSE countSegments(IF Truthy(getSegmentName(segs[1])) THEN prev + 1 ELSE 0, Tail(segs))

\* Faulty variant of sortFilesBySegmentCount: paths with fewer segments
\* come first
sortFilesBySegmentCountAscending(fileA, fileB) ==
  LET Compare(partsA, partsB) ==
        IF Len(partsA) > Len(partsB) THEN 1
        ELSE IF Len(partsA) < Len(partsB) THEN -1
        ELSE LET Placeholders(segmentLengthA, segmentLengthB) ==
                   IF segmentLengthA > segmentLengthB THEN 1
                   ELSE IF segmentLengthA < segmentLengthB THEN -1
                   ELSE 0
             IN Placeholders(countSegments(0, partsA), countSegments(0, partsB))
  IN Compare(Split(fileA, "/"), Split(fileB, "/"))

sortFilesBySegmentCount(fileA, fileB) ==
  LET Compare(partsA, partsB) ==
        IF Len(partsA) > Len(partsB) THEN -1
        ELSE IF Len(partsA) < Len(partsB) THEN 1
        ELSE LET Placeholders(segmentLengthA, segmentLengthB) ==
                   IF segmentLengthA > segmentLengthB THEN 1
                   ELSE IF segmentLengthA < segmentLengthB THEN -1
                   ELSE 0
             IN Placeholders(countSegments(0, partsA), countSegments(0, partsB))
  IN Compare(Split(fileA, "/"), Split(fileB, "/"))

\* Array.prototype.sort with a comparator: a stable sort
ArraySort(arr, Cmp(_, _)) ==
  LET Before(j, k, c) == c < 0 \/ (c = 0 /\ j < k)
      Pos(k) == 1 + Cardinality({j \in 1..Len(arr) : Before(j, k, Cmp(arr[j], arr[k]))})
  IN [n \in 1..Len(arr) |-> arr[CHOOSE k \in 1..Len(arr) : Pos(k) = n]]

\* ------------------------------------------------------------------------
\* Glob matching (minimatch) and the semver check of a runtime tag
\* ------------------------------------------------------------------------

RECURSIVE GlobSeg(_, _)
\* one pattern segment against one path segment: `*`, `?`, a character
\* class `[abc]`, a leading negative group `!(x)rest`, literal characters
GlobSeg(p, s) ==
  LET Negated(close) ==
        /\ GlobSeg(<<"*">> \o SubSeq(p, close + 1, Len(p)), s)
        /\ ~GlobSeg(SubSeq(p, 3, close - 1) \o SubSeq(p, close + 1, Len(p)), s)
      Class(close) ==
        /\ s # <<>>
        /\ \E k \in 2..(close - 1) : s[1] = p[k]
        /\ GlobSeg(SubSeq(p, close + 1, Len(p)), Tail(s))
      Other(closeParen, closeBracket) ==
        IF p[1] = "!" /\ Len(p) >= 2 /\ p[2] = "(" /\ closeParen > 0
        THEN Negated(closeParen)
        ELSE IF p[1] = "[" /\ closeBracket > 2
        THEN Class(closeBracket)
        ELSE s # <<>> /\ s[1] = p[1] /\ GlobSeg(Tail(p), Tail(s))
  IN IF p = <<>> THEN s = <<>>
     ELSE IF p[1] = "*" THEN \E k \in 0..Len(s) : GlobSeg(Tail(p), SubSeq(s, k + 1, Len(s)))
     ELSE IF p[1] = "?" THEN s # <<>> /\ GlobSeg(Tail(p), Tail(s))
     ELSE Other(IndexOf(p, ")"), IndexOf(p, "]"))

\* a segment that starts with a dot is matched only by a pattern that does
DotOk(p, s) == (s # <<>> /\ s[1] = ".") => (p # <<>> /\ p[1] = ".")

RECURSIVE GlobPath(_, _)
\* pattern segments against path segments; `**` swallows any number of
\* segments that do not start with a dot
GlobPath(ps, ss) ==
  IF ps = <<>> THEN ss = <<>>
  ELSE IF ps[1] = <<"*", "*">>
  THEN \E k \in 0..Len(ss) :
         /\ \A m \in 1..k : ~(ss[m] # <<>> /\ ss[m][1] = ".")
         /\ GlobPath(Tail(ps), SubSeq(ss, k + 1, Len(ss)))
  ELSE /\ ss # <<>>
       /\ DotOk(ps[1], ss[1])
       /\ GlobSeg(ps[1], ss[1])
       /\ GlobPath(Tail(ps), Tail(ss))

minimatch(fileName, pattern) ==
  IF pattern = <<>> THEN fileName = <<>>
  ELSE GlobPath(Split(pattern, "/"), Split(fileName, "/"))

IsDigit(c) == \E k \in 1..10 : Digits[k] = c

\* a numeric identifier: digits, no leading zero
NumericId(s) ==
  /\ s # <<>>
  /\ \A k \in 1..Len(s) : IsDigit(s[k])
  /\ (Len(s) > 1 => s[1] # "0")

\* semver.valid(tag) is not null: an optional `v`, then MAJOR.MINOR.PATCH
validSemver(tag) ==
  LET Core(parts) == Len(parts) = 3 /\ \A k \in 1..3 : NumericId(parts[k])
  IN Core(Split(IF tag # <<>> /\ tag[1] = "v" THEN Tail(tag) ELSE tag, "."))

\* ------------------------------------------------------------------------
\* Function configuration
\* ------------------------------------------------------------------------

\* a number is kept in tenths, so that 1.5 is 15
NoNum == [some |-> FALSE, val |-> 0]

Num(tenths) == [some |-> TRUE, val |-> tenths]

\* a property that should be a string: absent, a string, or another type
NoProp == [some |-> FALSE, str |-> TRUE, val |-> <<>>]

StrProp(s) == [some |-> TRUE, str |-> TRUE, val |-> s]

BadProp == [some |-> TRUE, str |-> FALSE, val |-> <<>>]

\* a value of the functions map; kind is "object", "null" or "string"
Func(runtime, memory, maxDuration, includeFiles, excludeFiles) ==
  [kind |-> "object", runtime |-> runtime, memory |-> memory,
   maxDuration |-> maxDuration, includeFiles |-> includeFiles,
   excludeFiles |-> excludeFiles]

EmptyFunc == Func(Undef, NoNum, NoNum, NoProp, NoProp)

NullFunc == [EmptyFunc EXCEPT !.kind = "null"]

StringFunc == [EmptyFunc EXCEPT !.kind = "string"]

\* Object.keys(func).length
PropertyCount(func) ==
  Cardinality({p \in {"runtime", "memory", "maxDuration", "includeFiles", "excludeFiles"} :
                 func[p].some})

MaxGlobLength == 256

MinDuration == 1

MaxDuration == 900

MinMemory == 128

MaxMemory == 3008

MemoryStep == 64

Error(code, name, paths) == [code |-> code, name |-> name, paths |-> paths]

NoError == [some |-> FALSE, val |-> Error("", <<>>, <<>>)]

SomeError(code, name, paths) == [some |-> TRUE, val |-> Error(code, name, paths)]

\* the tag of a runtime: `${runtime}`.split('@').pop()
RuntimeTag(runtime) == SubSeq(runtime, LastIndexOf(runtime, "@") + 1, Len(runtime))

InvalidDuration(d) ==
  d.some /\ (d.val < MinDuration * 10 \/ d.val > MaxDuration * 10 \/ d.val % 10 # 0)

InvalidMemory(m) ==
  m.some /\ (m.val < MinMemory * 10 \/ m.val > MaxMemory * 10 \/ m.val % (MemoryStep * 10) # 0)

InvalidRuntime(r) ==
  LET Bad(tag) == tag = <<>> \/ ~validSemver(tag)
  IN r.some /\ Bad(RuntimeTag(r.val))

\* what a message interpolates: the path or the property it names
Violation(code, name) == [code |-> code, name |-> name]

NoViolation == Violation("", <<>>)

\* Faulty variant of EntryViolation: the memory is checked before the
\* duration, and the runtime before the leading slash
EntryViolationReordered(path, func) ==
  IF Len(path) > MaxGlobLength THEN Violation("invalid_function_glob", <<>>)
  ELSE IF func.kind # "object" THEN Violation("invalid_function", <<>>)
  ELSE IF PropertyCount(func) = 0 THEN Violation("invalid_function", <<>>)
  ELSE IF InvalidMemory(func.memory) THEN Violation("invalid_function_memory", <<>>)
  ELSE IF InvalidDuration(func.maxDuration) THEN Violation("invalid_function_duration", <<>>)
  ELSE IF InvalidRuntime(func.runtime) THEN Violation("invalid_function_runtime", <<>>)
  ELSE IF StartsWith(path, <<"/">>) THEN Violation("invalid_function_source", path)
  ELSE IF func.includeFiles.some /\ ~func.includeFiles.str
  THEN Violation("invalid_function_property", T_includeFiles)
  ELSE IF func.excludeFiles.some /\ ~func.excludeFiles.str
  THEN Violation("invalid_function_property", T_excludeFiles)
  ELSE NoViolation

\* the checks of one entry, in the order of the code
EntryViolation(path, func) ==
  IF Len(path) > MaxGlobLength THEN Violation("invalid_function_glob", <<>>)
  ELSE IF func.kind # "object" THEN Violation("invalid_function", <<>>)
  ELSE IF PropertyCount(func) = 0 THEN Violation("invalid_function", <<>>)
  ELSE IF InvalidDuration(func.maxDuration) THEN Violation("invalid_function_duration", <<>>)
  ELSE IF InvalidMemory(func.memory) THEN Violation("invalid_function_memory", <<>>)
  ELSE IF StartsWith(path, <<"/">>) THEN Violation("invalid_function_source", path)
  ELSE IF InvalidRuntime(func.runtime) THEN Violation("invalid_function_runtime", <<>>)
  ELSE IF func.includeFiles.some /\ ~func.includeFiles.str
  THEN Violation("invalid_function_property", T_includeFiles)
  ELSE IF func.excludeFiles.some /\ ~func.excludeFiles.str
  THEN Violation("invalid_function_property", T_excludeFiles)
  ELSE NoViolation

RECURSIVE ValidateEntries(_)
ValidateEntries(entries) ==
  LET Checked(v) ==
        IF v # NoViolation THEN SomeError(v.code, v.name, <<>>)
        ELSE ValidateEntries(Tail(entries))
  IN IF entries = <<>> THEN NoError
     ELSE Checked(EntryViolation(entries[1].key, entries[1].func))

\* options.functions is the sequence of its entries in Object.entries order
validateFunctions(opts) == ValidateEntries(opts.functions)

NoMatch == [fnPattern |-> Undef, func |-> EmptyFunc, found |-> FALSE]

getFunction(fileName, opts) ==
  LET First(hits) ==
        IF hits = <<>> \/ hits[1].key = <<>> THEN NoMatch
        ELSE [fnPattern |-> Some(hits[1].key), func |-> hits[1].func, found |-> TRUE]
  IN First(SelectSeq(opts.functions,
                     LAMBDA e : e.key = fileName \/ minimatch(fileName, e.key)))

\* ------------------------------------------------------------------------
\* Builders
\* ------------------------------------------------------------------------

\* a builder config; functions is the sequence of the entries of the object
Config(functions, includeFiles, excludeFiles, framework, devCommand, buildCommand, outDir) ==
  [zeroConfig |-> TRUE, functions |-> functions, includeFiles |-> includeFiles,
   excludeFiles |-> excludeFiles, framework |-> framework, devCommand |-> devCommand,
   buildCommand |-> buildCommand, outputDirectory |-> outDir]

ZeroConfig == Config(<<>>, Undef, Undef, Undef, Undef, Undef, Undef)

Builder(use, src, config) == [use |-> use, src |-> src, config |-> config]

NoBuilder == [some |-> FALSE, val |-> Builder(<<>>, <<>>, ZeroConfig)]

SomeBuilder(b) == [some |-> TRUE, val |-> b]

\* `@${tag}` when a tag is given
WithTag(opts) == IF Truthy(opts.tag) THEN <<"@">> \o opts.tag.val ELSE <<>>

G_js ==  \* api/**/*.js
  <<"a", "p", "i", "/", "*", "*", "/", "*", ".", "j", "s">>

G_ts ==  \* api/**/*.ts
  <<"a", "p", "i", "/", "*", "*", "/", "*", ".", "t", "s">>

G_go ==  \* api/**/!(*_test).go
  <<"a", "p", "i", "/", "*", "*", "/", "!", "(", "*", "_", "t", "e", "s", "t", ")", ".", "g", "o">>

G_py ==  \* api/**/*.py
  <<"a", "p", "i", "/", "*", "*", "/", "*", ".", "p", "y">>

G_rb ==  \* api/**/*.rb
  <<"a", "p", "i", "/", "*", "*", "/", "*", ".", "r", "b">>

U_node ==  \* @now/node
  <<"@", "n", "o", "w", "/", "n", "o", "d", "e">>

U_go ==  \* @now/go
  <<"@", "n", "o", "w", "/", "g", "o">>

U_python ==  \* @now/python
  <<"@", "n", "o", "w", "/", "p", "y", "t", "h", "o", "n">>

U_ruby ==  \* @now/ruby
  <<"@", "n", "o", "w", "/", "r", "u", "b", "y">>

U_next ==  \* @now/next
  <<"@", "n", "o", "w", "/", "n", "e", "x", "t">>

U_static_build ==  \* @now/static-build
  <<"@", "n", "o", "w", "/", "s", "t", "a", "t", "i", "c", "-", "b", "u", "i", "l", "d">>

S_static ==  \* @now/static
  <<"@", "n", "o", "w", "/", "s", "t", "a", "t", "i", "c">>

getApiMatches(opts) ==
  LET Tagged(withTag) ==
        << [src |-> G_js, use |-> U_node \o withTag],
           [src |-> G_ts, use |-> U_node \o withTag],
           [src |-> G_go, use |-> U_go \o withTag],
           [src |-> G_py, use |-> U_python \o withTag],
           [src |-> G_rb, use |-> U_ruby \o withTag] >>
  IN Tagged(WithTag(opts))

\* the string property of a function config when it is truthy
TruthyProp(p) == IF p.some /\ p.str /\ p.val # <<>> THEN Some(p.val) ELSE Undef

S_api ==  \* api/
  <<"a", "p", "i", "/">>

maybeGetApiBuilder(fileName, apiMatches, opts) ==
  LET Made(use, fn) ==
        IF use = <<>> THEN NoBuilder
        ELSE SomeBuilder(Builder(use, fileName,
               IF fn.found
               THEN Config(<<[key |-> fn.fnPattern.val, func |-> fn.func]>>,
                           TruthyProp(fn.func.includeFiles),
                           TruthyProp(fn.func.excludeFiles),
                           Undef, Undef, Undef, Undef)
               ELSE ZeroConfig))
      Resolve(matches, fn) ==
        Made(IF fn.found /\ Truthy(fn.func.runtime) THEN fn.func.runtime.val
             ELSE IF matches # <<>> THEN matches[1].use
             ELSE <<>>,
             fn)
  IN IF \/ ~StartsWith(fileName, S_api)
        \/ Includes(fileName, <<"/", ".">>)
        \/ Includes(fileName, <<"/", "_">>)
        \/ Includes(fileName, <<"/", "n", "o", "d", "e", "_", "m", "o", "d", "u", "l", "e", "s", "/">>)
        \/ EndsWith(fileName, <<".", "d", ".", "t", "s">>)
     THEN NoBuilder
     ELSE Resolve(SelectSeq(apiMatches,
                            LAMBDA m : m.src = fileName \/ minimatch(fileName, m.src)),
                  getFunction(fileName, opts))

\* the used set after addToUsedFunctions(builder)
addToUsedFunctions(used, builder) ==
  IF builder.config.functions # <<>> /\ builder.config.functions[1].key # <<>>
  THEN used \cup {builder.config.functions[1].key}
  ELSE used

\* a manifest: present or not, with a `build` script, with a `next` dependency
Pkg(hasBuild, hasNext) == [present |-> TRUE, build |-> hasBuild, next |-> hasNext]

NoPkg == [present |-> FALSE, build |-> FALSE, next |-> FALSE]

hasBuildScript(p) == p.present /\ p.build

S_package_json ==  \* package.json
  <<"p", "a", "c", "k", "a", "g", "e", ".", "j", "s", "o", "n">>

S_nextjs ==  \* nextjs
  <<"n", "e", "x", "t", "j", "s">>

\* Entrypoints for other frameworks
Entrypoints ==
  { S_package_json,
    <<"c", "o", "n", "f", "i", "g", ".", "y", "a", "m", "l">>,
    <<"c", "o", "n", "f", "i", "g", ".", "t", "o", "m", "l">>,
    <<"c", "o", "n", "f", "i", "g", ".", "j", "s", "o", "n">>,
    <<"_", "c", "o", "n", "f", "i", "g", ".", "y", "m", "l">>,
    <<"c", "o", "n", "f", "i", "g", ".", "y", "m", "l">>,
    <<"c", "o", "n", "f", "i", "g", ".", "r", "b">> }

\* x when it is truthy (the `if (x) config.x = x` of detectFrontBuilder)
Keep(x) == IF Truthy(x) THEN x ELSE Undef

detectFrontBuilder(p, files, usedFunctions, fallbackEntrypoint, opts) ==
  LET Made(config, found) ==
        IF (IF p.present /\ p.next THEN Some(S_nextjs) ELSE opts.projectSettings.framework)
           = Some(S_nextjs)
        THEN Builder(U_next \o WithTag(opts), S_package_json, config)
        ELSE Builder(U_static_build \o WithTag(opts),
                     IF p.present THEN S_package_json
                     ELSE IF found # <<>> THEN found[1]
                     ELSE IF Truthy(fallbackEntrypoint) THEN fallbackEntrypoint.val
                     ELSE S_package_json,
                     config)
      Settings(ps) ==
        \* When the builder is not used yet we'll use it for the frontend
        Made(Config(SelectSeq(opts.functions, LAMBDA e : e.key \notin usedFunctions),
                    Undef, Undef, Keep(ps.framework), Keep(ps.devCommand),
                    Keep(ps.buildCommand), Keep(ps.outputDirectory)),
             SelectSeq(files, LAMBDA f : f \in Entrypoints))
  IN Settings(opts.projectSettings)

getMissingBuildScriptError == Error("missing_build_script", <<>>, <<>>)

\* Faulty variant of NextUnused: no key is tolerated
FirstUnused(keys) == IF keys = <<>> THEN Undef ELSE Some(keys[1])

RECURSIVE NextUnused(_)
\* the loop over the unused keys when the frontend is Next.js: a key under
\* `pages/` or `src/pages` is dropped, the first other key is reported
NextUnused(keys) ==
  IF keys = <<>> THEN Undef
  ELSE IF StartsWith(keys[1], T_pages_Sl) \/ StartsWith(keys[1], T_src_Sl_pages)
  THEN NextUnused(Tail(keys))
  ELSE Some(keys[1])

RECURSIVE Keys(_)
\* Object.keys of the functions map
Keys(entries) == IF entries = <<>> THEN <<>> ELSE <<entries[1].key>> \o Keys(Tail(entries))

checkUnusedFunctions(frontendBuilder, usedFunctions, opts) ==
  LET Reported(key) ==
        IF key.some THEN SomeError("unused_function", key.val, <<>>) ELSE NoError
      Check(unusedFunctions) ==
        IF unusedFunctions = <<>> THEN NoError
        ELSE IF frontendBuilder.some /\ StartsWith(frontendBuilder.val.use, U_next)
        THEN Reported(NextUnused(unusedFunctions))
        ELSE Reported(Some(unusedFunctions[1]))
  IN Check(SelectSeq(Keys(opts.functions), LAMBDA key : key \notin usedFunctions))

\* ------------------------------------------------------------------------
\* Route assembler
\* ------------------------------------------------------------------------

RECURSIVE Unique(_)
\* Array.from(new Set(arr)): the first occurrence of every element
Unique(arr) ==
  IF arr = <<>> THEN <<>>
  ELSE <<arr[1]>> \o Unique(SelectSeq(Tail(arr), LAMBDA x : x # arr[1]))

RECURSIVE Extensions(_)
\* builders.filter(zeroConfig under api/).map(b => extname(b.src))
Extensions(builders) ==
  IF builders = <<>> THEN <<>>
  ELSE (IF /\ builders[1].config.zeroConfig
           /\ builders[1].src # <<>>
           /\ StartsWith(builders[1].src, S_api)
        THEN <<extname(builders[1].src)>>
        ELSE <<>>)
       \o Extensions(Tail(builders))

detectApiExtensions(builders) ==
  Unique(SelectSeq(Extensions(builders), LAMBDA e : e # <<>>))

RECURSIVE JoinExts(_)
\* Array.from(extSet).map(ext => ext.slice(1)).join('|')
JoinExts(exts) ==
  IF exts = <<>> THEN <<>>
  ELSE IF Len(exts) = 1 THEN Tail(exts[1])
  ELSE Tail(exts[1]) \o <<"|">> \o JoinExts(Tail(exts))

S_apiCatchAll ==  \* ^/api(/.*)?$
  <<"^", "/", "a", "p", "i", "(", "/", ".", "*", ")", "?", "$">>

S_indexSrcHead ==  \* ^/(api(?:.+)?)/index
  <<"^", "/", "(", "a", "p", "i", "(", "?", ":", ".", "+", ")", "?", ")", "/", "i", "n", "d", "e", "x">>

S_indexSrcTail ==  \* ?/?$
  <<"?", "/", "?", "$">>

S_extSrcHead ==  \* ^/api/(.+)
  <<"^", "/", "a", "p", "i", "/", "(", ".", "+", ")">>

S_extSrcTail ==  \* /?$
  <<"/", "?", "$">>

S_extGroupHead ==  \* (?:\.(?:
  <<"(", "?", ":", "\\", ".", "(", "?", ":">>

S_extGroupTail ==  \* ))
  <<")", ")">>

S_apiDest ==  \* /api/$1
  <<"/", "a", "p", "i", "/", "$", "1">>

S_everything ==  \* /(.*)
  <<"/", "(", ".", "*", ")">>

NotFound == 404

PermanentRedirect == 308

\* lines 917-929: the redirects of clean URLs
CleanUrlRedirects(extGroup, trailingSlash) ==
  << RedirectRoute(S_indexSrcHead \o extGroup \o S_indexSrcTail,
                   IF trailingSlash THEN <<"/", "$", "1", "/">> ELSE T_Sl_Dlr_1,
                   PermanentRedirect),
     RedirectRoute(S_extSrcHead \o extGroup \o S_extSrcTail,
                   IF trailingSlash THEN <<"/", "a", "p", "i", "/", "$", "1", "/">> ELSE S_apiDest,
                   PermanentRedirect) >>

\* lines 931-936: the miss phase, which adds the extension back
MissRoutes(extGroup) ==
  << HandleRoute("miss"),
     SourceRoute(S_extSrcHead \o extGroup \o <<"$">>, S_apiDest, TRUE) >>

\* Faulty variant of MissRewrites: the 404 rule comes first and stops the
\* evaluation
MissRewritesNotFoundFirst(dynamicRoutes) ==
  <<StatusRoute(S_apiCatchAll, NotFound, FALSE)>> \o dynamicRoutes

\* lines 940-945
MissRewrites(dynamicRoutes) ==
  dynamicRoutes \o <<StatusRoute(S_apiCatchAll, NotFound, TRUE)>>

\* Faulty variant of LegacyRoutes: the 404 rule shadows the API routes
LegacyRoutesNotFoundFirst(apiRoutes) ==
  <<StatusRoute(S_apiCatchAll, NotFound, FALSE)>> \o apiRoutes

\* lines 947-954, where apiRoutes is not empty
LegacyRoutes(apiRoutes) ==
  apiRoutes \o <<StatusRoute(S_apiCatchAll, NotFound, FALSE)>>

\* lines 958-968
StaticRewrite(outDir, frontendBuilder, opts) ==
  IF /\ outDir # <<>>
     /\ frontendBuilder.some
     /\ ~opts.featHandleMiss
     /\ frontendBuilder.val.use = S_static
  THEN <<SourceRoute(S_everything, <<"/">> \o outDir \o T_Sl_Dlr_1, FALSE)>>
  ELSE <<>>

getRouteResult(apiRoutes, dynamicRoutes, outDir, apiBuilders, frontendBuilder, opts) ==
  LET Assemble(extSet, extGroup, static) ==
        IF Len(apiRoutes) > 0 /\ opts.featHandleMiss
        THEN [defaultRoutes |-> (IF Len(extSet) > 0 /\ ~opts.cleanUrls
                                 THEN MissRoutes(extGroup) ELSE <<>>)
                                \o static,
              redirectRoutes |-> IF Len(extSet) > 0 /\ opts.cleanUrls
                                 THEN CleanUrlRedirects(extGroup, opts.trailingSlash)
                                 ELSE <<>>,
              rewriteRoutes |-> MissRewrites(dynamicRoutes)]
        ELSE IF Len(apiRoutes) > 0
        THEN [defaultRoutes |-> LegacyRoutes(apiRoutes) \o static,
              redirectRoutes |-> <<>>,
              rewriteRoutes |-> <<>>]
        ELSE [defaultRoutes |-> static, redirectRoutes |-> <<>>, rewriteRoutes |-> <<>>]
      Grouped(extSet) ==
        Assemble(extSet, S_extGroupHead \o JoinExts(extSet) \o S_extGroupTail,
                 StaticRewrite(outDir, frontendBuilder, opts))
  IN Grouped(detectApiExtensions(apiBuilders))

\* ------------------------------------------------------------------------
\* detectBuilders as a state machine
\* ------------------------------------------------------------------------

VARIABLES
  input,                  \* the arguments as passed in: [files, pkg, options]
  files,                  \* the files array, which both sorts reorder in place
  pc,                     \* position in detectBuilders
  i,                      \* position of the classification loop in files
  apiBuilders, frontendBuilder, usedFunctions, absolutePathCache,
  hasUsedOutputDirectory, hasNoneApiFiles, hasNextApiFiles, fallbackEntrypoint,
  apiRoutes, dynamicRoutes, warnings,
  result                  \* the value the call resolves to

vars ==
  <<input, files, pc, i, apiBuilders, frontendBuilder, usedFunctions, absolutePathCache,
    hasUsedOutputDirectory, hasNoneApiFiles, hasNextApiFiles, fallbackEntrypoint,
    apiRoutes, dynamicRoutes, warnings, result>>

pkg == input.pkg

options == input.options

Null == [isNull |-> TRUE, items |-> <<>>]

List(items) == [isNull |-> FALSE, items |-> items]

NoResult ==
  [builders |-> Null, errors |-> Null, warnings |-> <<>>, defaultRoutes |-> Null,
   redirectRoutes |-> Null, rewriteRoutes |-> Null]

\* Faulty variant of ErrorResult: the route lists are returned empty
\* instead of null
ErrorResultWithRoutes(error, warns) ==
  [builders |-> Null, errors |-> List(<<error>>), warnings |-> warns,
   defaultRoutes |-> List(<<>>), redirectRoutes |-> List(<<>>),
   rewriteRoutes |-> List(<<>>)]

\* the result of an error exit
ErrorResult(error, warns) ==
  [builders |-> Null, errors |-> List(<<error>>), warnings |-> warns,
   defaultRoutes |-> Null, redirectRoutes |-> Null, rewriteRoutes |-> Null]

\* the result of the normal exit
SuccessResult(builders, errors, warns, routesResult) ==
  [builders |-> IF Len(builders) > 0 THEN List(builders) ELSE Null,
   errors |-> IF Len(errors) > 0 THEN List(errors) ELSE Null,
   warnings |-> warns,
   defaultRoutes |-> List(routesResult.defaultRoutes),
   redirectRoutes |-> List(routesResult.redirectRoutes),
   rewriteRoutes |-> List(routesResult.rewriteRoutes)]

buildCommand == options.projectSettings.buildCommand

outputDirectory == options.projectSettings.outputDirectory

framework == options.projectSettings.framework

\* x === ''
IsEmptyString(x) == x.some /\ x.val = <<>>

\* Faulty variant of makeFrontendStatic: an empty outputDirectory is ignored
makeFrontendStaticByCommand == IsEmptyString(buildCommand)

\* If either is missing we'll make the frontend static
makeFrontendStatic == IsEmptyString(buildCommand) \/ IsEmptyString(outputDirectory)

S_public ==  \* public
  <<"p", "u", "b", "l", "i", "c">>

usedOutputDirectory == OrElse(outputDirectory, S_public)

InitWith(Inputs) ==
  /\ input \in Inputs
  /\ files = input.files
  /\ pc = "validate"
  /\ i = 1
  /\ apiBuilders = <<>>
  /\ frontendBuilder = NoBuilder
  /\ usedFunctions = {}
  /\ absolutePathCache = {}
  /\ hasUsedOutputDirectory = FALSE
  /\ hasNoneApiFiles = FALSE
  /\ hasNextApiFiles = FALSE
  /\ fallbackEntrypoint = Undef
  /\ apiRoutes = <<>>
  /\ dynamicRoutes = <<>>
  /\ warnings = <<>>
  /\ result = NoResult

Finish(res) == pc' = "done" /\ result' = res

\* lines 91-102
ValidateFunctions ==
  /\ pc = "validate"
  /\ LET Checked(functionError) ==
           IF functionError.some
           THEN Finish(ErrorResult(functionError.val, warnings))
           ELSE pc' = "sort" /\ UNCHANGED result
     IN Checked(validateFunctions(options))
  /\ UNCHANGED <<input, files, i, apiBuilders, frontendBuilder, usedFunctions,
                 absolutePathCache, hasUsedOutputDirectory, hasNoneApiFiles,
                 hasNextApiFiles, fallbackEntrypoint, apiRoutes, dynamicRoutes, warnings>>

\* lines 104-106: sortedFiles and apiSortedFiles are the files array itself,
\* sorted in place by alphabet and then, in place again, by segment count
SortFiles ==
  /\ pc = "sort"
  /\ files' = ArraySort(ArraySort(files, sortFiles), sortFilesBySegmentCount)
  /\ pc' = "classify"
  /\ UNCHANGED <<input, i, apiBuilders, frontendBuilder, usedFunctions,
                 absolutePathCache, hasUsedOutputDirectory, hasNoneApiFiles,
                 hasNextApiFiles, fallbackEntrypoint, apiRoutes, dynamicRoutes, warnings,
                 result>>

NoRoute == [some |-> FALSE, val |-> HandleRoute("")]

SomeRoute(r) == [some |-> TRUE, val |-> r]

\* scanned tells whether pathOccurrences ran (and filled the cache)
getApiRoute(fileName, sortedFiles, opts) ==
  LET Compiled(out) ==
        [apiRoute |-> SomeRoute(out.route), isDynamic |-> out.isDynamic,
         scanned |-> TRUE, routeError |-> NoError]
      Scanned(occurrences) ==
        IF Len(occurrences) > 0
        THEN [apiRoute |-> NoRoute, isDynamic |-> FALSE, scanned |-> TRUE,
              routeError |-> SomeError("conflicting_file_path", fileName, occurrences)]
        ELSE Compiled(createRouteFromPath(fileName, opts.featHandleMiss, opts.cleanUrls))
      Checked(conflictingSegment) ==
        IF Truthy(conflictingSegment)
        THEN [apiRoute |-> NoRoute, isDynamic |-> FALSE, scanned |-> FALSE,
              routeError |-> SomeError("conflicting_path_segment", fileName,
                                       <<conflictingSegment.val>>)]
        ELSE Scanned(pathOccurrences(fileName, sortedFiles))
  IN Checked(getConflictingSegment(fileName))

\* lines 140-168: the file gave an API builder
ClassifyApi(fileName, apiBuilder, r) ==
  /\ absolutePathCache' = IF r.scanned THEN CacheAfter(absolutePathCache, fileName, files)
                          ELSE absolutePathCache
  /\ IF r.routeError.some
     THEN /\ Finish(ErrorResult(r.routeError.val, warnings))
          /\ UNCHANGED <<i, apiBuilders, usedFunctions, apiRoutes, dynamicRoutes>>
     ELSE /\ apiRoutes' = IF r.apiRoute.some THEN Append(apiRoutes, r.apiRoute.val)
                          ELSE apiRoutes
          /\ dynamicRoutes' = IF r.apiRoute.some /\ r.isDynamic
                              THEN Append(dynamicRoutes, r.apiRoute.val)
                              ELSE dynamicRoutes
          /\ usedFunctions' = addToUsedFunctions(usedFunctions, apiBuilder)
          /\ apiBuilders' = Append(apiBuilders, apiBuilder)
          /\ i' = i + 1
          /\ UNCHANGED <<pc, result>>
  /\ UNCHANGED <<hasUsedOutputDirectory, hasNoneApiFiles, hasNextApiFiles,
                 fallbackEntrypoint>>

\* lines 171-201: the file gave no API builder
ClassifyOther(fileName) ==
  /\ hasUsedOutputDirectory' =
       (hasUsedOutputDirectory \/ StartsWith(fileName, usedOutputDirectory \o <<"/">>))
  /\ hasNoneApiFiles' =
       (hasNoneApiFiles \/ (~StartsWith(fileName, S_api) /\ fileName # S_package_json))
  /\ hasNextApiFiles' =
       (hasNextApiFiles
        \/ StartsWith(fileName, <<"p", "a", "g", "e", "s", "/", "a", "p", "i">>)
        \/ StartsWith(fileName, <<"s", "r", "c", "/", "p", "a", "g", "e", "s", "/", "a", "p", "i">>))
  /\ fallbackEntrypoint' =
       IF /\ ~Truthy(fallbackEntrypoint)
          /\ Truthy(buildCommand)
          /\ ~Includes(fileName, <<"/">>)
          /\ fileName # <<"n", "o", "w", ".", "j", "s", "o", "n">>
          /\ fileName # <<"v", "e", "r", "c", "e", "l", ".", "j", "s", "o", "n">>
       THEN Some(fileName)
       ELSE fallbackEntrypoint
  /\ i' = i + 1
  /\ UNCHANGED <<pc, result, apiBuilders, usedFunctions, absolutePathCache, apiRoutes,
                 dynamicRoutes>>

\* lines 137-202: one iteration of the loop over the sorted files
ClassifyFile ==
  /\ pc = "classify"
  /\ i <= Len(files)
  /\ LET Body(fileName, apiBuilder) ==
           IF apiBuilder.some
           THEN ClassifyApi(fileName, apiBuilder.val, getApiRoute(fileName, files, options))
           ELSE ClassifyOther(fileName)
     IN Body(files[i], maybeGetApiBuilder(files[i], getApiMatches(options), options))
  /\ UNCHANGED <<input, files, frontendBuilder, warnings>>

S_rootStaticSrc ==  \* !{api/**,package.json}
  <<"!", "{", "a", "p", "i", "/", "*", "*", ",", "p", "a", "c", "k", "a", "g", "e", ".", "j", "s", "o", "n", "}">>

\* the static frontend of lines 236-257
StaticFrontend ==
  IF hasUsedOutputDirectory /\ ~IsEmptyString(outputDirectory)
  THEN SomeBuilder(Builder(S_static, usedOutputDirectory \o T_Sl_Star_Star_Sl_Star,
                           [ZeroConfig EXCEPT !.outputDirectory = Some(usedOutputDirectory)]))
  ELSE IF Len(apiBuilders) > 0 /\ hasNoneApiFiles
  THEN SomeBuilder(Builder(S_static, S_rootStaticSrc, ZeroConfig))
  ELSE NoBuilder

\* Faulty variant of MissingBuildScript: the API builders do not suppress
\* the error
MissingBuildScriptDespiteApi ==
  /\ pkg.present
  /\ ~makeFrontendStatic
  /\ ~options.ignoreBuildScript

\* the condition of lines 217-222
MissingBuildScript ==
  /\ pkg.present
  /\ ~makeFrontendStatic
  /\ Len(apiBuilders) = 0
  /\ ~options.ignoreBuildScript

\* lines 204-258, after the loop
ChooseFrontend ==
  /\ pc = "classify"
  /\ i > Len(files)
  /\ IF ~makeFrontendStatic
        /\ (hasBuildScript(pkg) \/ Truthy(buildCommand) \/ Truthy(framework))
     THEN /\ frontendBuilder' = SomeBuilder(detectFrontBuilder(pkg, files, usedFunctions,
                                                               fallbackEntrypoint, options))
          /\ pc' = "unused"
          /\ UNCHANGED result
     ELSE IF MissingBuildScript
     THEN /\ Finish(ErrorResult(getMissingBuildScriptError, warnings))
          /\ UNCHANGED frontendBuilder
     ELSE /\ frontendBuilder' = StaticFrontend
          /\ pc' = "unused"
          /\ UNCHANGED result
  /\ UNCHANGED <<input, files, i, apiBuilders, usedFunctions, absolutePathCache,
                 hasUsedOutputDirectory, hasNoneApiFiles, hasNextApiFiles,
                 fallbackEntrypoint, apiRoutes, dynamicRoutes, warnings>>

\* lines 260-275
CheckUnused ==
  /\ pc = "unused"
  /\ LET Checked(unusedFunctionError) ==
           IF unusedFunctionError.some
           THEN Finish(ErrorResult(unusedFunctionError.val, warnings))
           ELSE pc' = "routes" /\ UNCHANGED result
     IN Checked(checkUnusedFunctions(frontendBuilder, usedFunctions, options))
  /\ UNCHANGED <<input, files, i, apiBuilders, frontendBuilder, usedFunctions,
                 absolutePathCache, hasUsedOutputDirectory, hasNoneApiFiles,
                 hasNextApiFiles, fallbackEntrypoint, apiRoutes, dynamicRoutes, warnings>>

ConflictingFilesWarning == Error("conflicting_files", <<>>, <<>>)

\* lines 277-311
AssembleRoutes ==
  /\ pc = "routes"
  /\ LET Return(warns) ==
           /\ warnings' = warns
           /\ Finish(SuccessResult(
                apiBuilders \o (IF frontendBuilder.some THEN <<frontendBuilder.val>>
                                ELSE <<>>),
                <<>>, warns,
                getRouteResult(apiRoutes, dynamicRoutes, usedOutputDirectory, apiBuilders,
                               frontendBuilder, options)))
     IN Return(IF frontendBuilder.some /\ hasNextApiFiles /\ Len(apiBuilders) > 0
               THEN Append(warnings, ConflictingFilesWarning)
               ELSE warnings)
  /\ UNCHANGED <<input, files, i, apiBuilders, frontendBuilder, usedFunctions,
                 absolutePathCache, hasUsedOutputDirectory, hasNoneApiFiles,
                 hasNextApiFiles, fallbackEntrypoint, apiRoutes, dynamicRoutes>>

Next ==
  \/ ValidateFunctions
  \/ SortFiles
  \/ ClassifyFile
  \/ ChooseFrontend
  \/ CheckUnused
  \/ AssembleRoutes

\* ------------------------------------------------------------------------
\* Inputs
\* ------------------------------------------------------------------------

\* the most files a call is given
MaxFiles == 3

Options(tag, functions, ignore, projectSettings, cleanUrls, trailingSlash, handleMiss) ==
  [tag |-> tag, functions |-> functions, ignoreBuildScript |-> ignore,
   projectSettings |-> projectSettings, cleanUrls |-> cleanUrls,
   trailingSlash |-> trailingSlash, featHandleMiss |-> handleMiss]

ProjectSettings(fw, devCommand, build, out) ==
  [framework |-> fw, devCommand |-> devCommand, buildCommand |-> build,
   outputDirectory |-> out]

NoSettings == ProjectSettings(Undef, Undef, Undef, Undef)

Entry(key, func) == [key |-> key, func |-> func]

Reverse(s) == [k \in 1..Len(s) |-> s[Len(s) + 1 - k]]

\* the lists of at most MaxFiles distinct files of a universe, in the order
\* of the universe
FileLists(universe) ==
  LET nth(I, k) == CHOOSE x \in I : Cardinality({y \in I : y < x}) = k - 1
      asc(I) == [k \in 1..Cardinality(I) |-> universe[nth(I, k)]]
  IN {asc(I) : I \in {J \in SUBSET (1..Len(universe)) : Cardinality(J) <= MaxFiles}}

\* the same lists, and each of them reversed
FileListsBothWays(universe) ==
  FileLists(universe) \cup {Reverse(fs) : fs \in FileLists(universe)}

F_api_a_js ==  \* api/a.js
  <<"a", "p", "i", "/", "a", ".", "j", "s">>

F_api_a_txt ==  \* api/a.txt
  <<"a", "p", "i", "/", "a", ".", "t", "x", "t">>

F_api_id_ts ==  \* api/[id].ts
  <<"a", "p", "i", "/", "[", "i", "d", "]", ".", "t", "s">>

F_api_name_ts ==  \* api/[name].ts
  <<"a", "p", "i", "/", "[", "n", "a", "m", "e", "]", ".", "t", "s">>

F_api_1_ts ==  \* api/1.ts
  <<"a", "p", "i", "/", "1", ".", "t", "s">>

F_api_a_x_js ==  \* api/[a]/x.js
  <<"a", "p", "i", "/", "[", "a", "]", "/", "x", ".", "j", "s">>

F_api_b_x_js ==  \* api/[b]/x.js
  <<"a", "p", "i", "/", "[", "b", "]", "/", "x", ".", "j", "s">>

F_api_id_id_js ==  \* api/[id]/[id].js
  <<"a", "p", "i", "/", "[", "i", "d", "]", "/", "[", "i", "d", "]", ".", "j", "s">>

F_api_lib_a_js ==  \* api/_lib/[a].js
  <<"a", "p", "i", "/", "_", "l", "i", "b", "/", "[", "a", "]", ".", "j", "s">>

F_api_lib_b_js ==  \* api/_lib/[b].js
  <<"a", "p", "i", "/", "_", "l", "i", "b", "/", "[", "b", "]", ".", "j", "s">>

F_api_b_index_js ==  \* api/b/index.js
  <<"a", "p", "i", "/", "b", "/", "i", "n", "d", "e", "x", ".", "j", "s">>

F_api_hello ==  \* api/hello
  <<"a", "p", "i", "/", "h", "e", "l", "l", "o">>

F_api_c_py ==  \* api/c.py
  <<"a", "p", "i", "/", "c", ".", "p", "y">>

F_public_index_html ==  \* public/index.html
  <<"p", "u", "b", "l", "i", "c", "/", "i", "n", "d", "e", "x", ".", "h", "t", "m", "l">>

F_dist_index_html ==  \* dist/index.html
  <<"d", "i", "s", "t", "/", "i", "n", "d", "e", "x", ".", "h", "t", "m", "l">>

F_index_html ==  \* index.html
  <<"i", "n", "d", "e", "x", ".", "h", "t", "m", "l">>

F_pages_api_x_js ==  \* pages/api/x.js
  <<"p", "a", "g", "e", "s", "/", "a", "p", "i", "/", "x", ".", "j", "s">>

F_config_yaml ==  \* config.yaml
  <<"c", "o", "n", "f", "i", "g", ".", "y", "a", "m", "l">>

R_php ==  \* now-php@1.0.0
  <<"n", "o", "w", "-", "p", "h", "p", "@", "1", ".", "0", ".", "0">>

K_api_all ==  \* api/**
  <<"a", "p", "i", "/", "*", "*">>

K_pages_all ==  \* pages/**
  <<"p", "a", "g", "e", "s", "/", "*", "*">>

K_src_pages ==  \* src/pages/x.js
  <<"s", "r", "c", "/", "p", "a", "g", "e", "s", "/", "x", ".", "j", "s">>

K_other ==  \* other/x.js
  <<"o", "t", "h", "e", "r", "/", "x", ".", "j", "s">>

S_dist ==  \* dist
  <<"d", "i", "s", "t">>

S_make ==  \* make
  <<"m", "a", "k", "e">>

S_hugo ==  \* hugo
  <<"h", "u", "g", "o">>

S_canary ==  \* canary
  <<"c", "a", "n", "a", "r", "y">>

\* { memory: 128 }
MemoryFunc == Func(Undef, Num(1280), NoNum, NoProp, NoProp)

\* { runtime: 'now-php@1.0.0' }
RuntimeFunc == Func(Some(R_php), NoNum, NoNum, NoProp, NoProp)


Input(fs, p, o) == [files |-> fs, pkg |-> p, options |-> o]

F_package_json ==  \* package.json
  <<"p", "a", "c", "k", "a", "g", "e", ".", "j", "s", "o", "n">>

F_api_name_x_ts ==  \* api/[name]/x.ts
  <<"a", "p", "i", "/", "[", "n", "a", "m", "e", "]", "/", "x", ".", "t", "s">>

R_canary ==  \* now-php@canary
  <<"n", "o", "w", "-", "p", "h", "p", "@", "c", "a", "n", "a", "r", "y">>

R_untagged ==  \* now-php
  <<"n", "o", "w", "-", "p", "h", "p">>

R_empty_tag ==  \* now-php@
  <<"n", "o", "w", "-", "p", "h", "p", "@">>

K_api_a_js ==  \* api/a.js
  <<"a", "p", "i", "/", "a", ".", "j", "s">>

K_slash ==  \* /api/a.js
  <<"/", "a", "p", "i", "/", "a", ".", "j", "s">>

K_api_hello ==  \* api/hello
  <<"a", "p", "i", "/", "h", "e", "l", "l", "o">>

\* a glob of MaxGlobLength characters, and one character more
K_longest == Repeat("a", MaxGlobLength)

K_too_long == Repeat("a", MaxGlobLength + 1)

\* the function maps of at most two entries with distinct keys
FunctionMaps(entries) ==
  {<<>>} \cup {<<e>> : e \in entries}
         \cup {<<p[1], p[2]>> : p \in {q \in entries \X entries : q[1].key # q[2].key}}

\* --- inputs around the conflict detector

ConflictFiles ==
  <<F_api_name_ts, F_api_a_js, F_api_id_ts, F_api_a_txt, F_api_b_x_js, F_api_1_ts,
    F_api_a_x_js, F_api_id_id_js, F_api_lib_b_js, F_api_lib_a_js, F_api_name_x_ts>>

ConflictInputs ==
  {Input(fs, p, Options(Undef, fns, FALSE, NoSettings, FALSE, FALSE, miss)) :
     fs \in FileListsBothWays(ConflictFiles),
     p \in {NoPkg, Pkg(FALSE, FALSE)},
     fns \in {<<>>, <<Entry(K_api_all, RuntimeFunc)>>, <<Entry(F_api_a_txt, RuntimeFunc)>>},
     miss \in BOOLEAN}

SpecConflict == InitWith(ConflictInputs) /\ [][Next]_vars

\* --- inputs around the choice of the frontend

FrontendFiles ==
  <<F_public_index_html, F_api_a_js, F_package_json, F_index_html, F_dist_index_html,
    F_config_yaml>>

FrontendInputs ==
  {Input(fs, p, Options(Undef, <<>>, ignore, ProjectSettings(fw, Undef, build, out),
                        FALSE, FALSE, FALSE)) :
     fs \in FileLists(FrontendFiles),
     p \in {NoPkg, Pkg(FALSE, FALSE), Pkg(TRUE, FALSE), Pkg(FALSE, TRUE)},
     ignore \in BOOLEAN,
     fw \in {Undef, Some(<<>>), Some(S_nextjs), Some(S_hugo)},
     build \in {Undef, Some(<<>>), Some(S_make)},
     out \in {Undef, Some(<<>>), Some(S_dist)}}

SpecFrontend == InitWith(FrontendInputs) /\ [][Next]_vars

\* --- inputs around the unused functions

UnusedFiles == <<F_pages_api_x_js, F_api_b_index_js, F_api_a_js, F_package_json>>

UnusedEntries ==
  {Entry(k, MemoryFunc) : k \in {K_api_all, K_api_a_js, K_pages_all, K_src_pages, K_other}}

UnusedInputs ==
  {Input(fs, p, Options(Undef, fns, ignore, ProjectSettings(fw, Undef, Undef, Undef),
                        FALSE, FALSE, FALSE)) :
     fs \in FileLists(UnusedFiles),
     p \in {NoPkg, Pkg(FALSE, FALSE), Pkg(TRUE, FALSE), Pkg(TRUE, TRUE)},
     fns \in FunctionMaps(UnusedEntries),
     ignore \in BOOLEAN,
     fw \in {Undef, Some(S_nextjs), Some(S_hugo)}}

SpecUnused == InitWith(UnusedInputs) /\ [][Next]_vars

\* --- inputs around the validation of the functions

BadMemoryFunc == Func(Undef, Num(1000), NoNum, NoProp, NoProp)

\* every combination of a valid, an invalid and an absent value per property
Funcs ==
  {Func(r, m, d, inc, exc) :
     r \in {Undef, Some(R_php), Some(R_canary)},
     m \in {NoNum, Num(1280), Num(1000)},
     d \in {NoNum, Num(10), Num(15)},
     inc \in {NoProp, BadProp},
     exc \in {NoProp, BadProp}}
  \cup {NullFunc, StringFunc}

\* values at the edges of the ranges
EdgeFuncs ==
  {Func(Undef, m, NoNum, NoProp, NoProp) : m \in {Num(640), Num(1920), Num(30080), Num(30720)}}
  \cup {Func(Undef, NoNum, d, NoProp, NoProp) : d \in {Num(0), Num(9000), Num(9010)}}
  \cup {Func(Some(r), NoNum, NoNum, NoProp, NoProp) : r \in {R_untagged, R_empty_tag}}
  \cup {Func(Undef, NoNum, NoNum, StrProp(S_dist), StrProp(S_dist))}

\* the entries that come first or second in a map of two
PairedFuncs ==
  {MemoryFunc, BadMemoryFunc, EmptyFunc, RuntimeFunc,
   Func(Some(R_canary), NoNum, NoNum, NoProp, NoProp),
   Func(Undef, NoNum, Num(15), NoProp, NoProp),
   Func(Undef, Num(1280), NoNum, BadProp, NoProp)}

ValidateMaps ==
  {<<Entry(k, f)>> : k \in {K_api_all, K_slash, K_too_long}, f \in Funcs}
  \cup {<<Entry(k, f)>> : k \in {K_api_all, K_longest}, f \in EdgeFuncs}
  \cup {<<Entry(k, f), Entry(l, g)>> :
          k \in {K_api_all, K_slash}, l \in {K_other, K_too_long},
          f \in PairedFuncs, g \in PairedFuncs}

ValidateFiles == <<F_api_name_ts, F_api_id_ts, F_package_json, F_api_a_js>>

ValidateInputs ==
  {Input(fs, p, Options(Undef, fns, FALSE, NoSettings, FALSE, FALSE, FALSE)) :
     fs \in FileLists(ValidateFiles),
     p \in {NoPkg, Pkg(FALSE, FALSE)},
     fns \in ValidateMaps}

SpecValidate == InitWith(ValidateInputs) /\ [][Next]_vars

\* --- inputs around the routes

RouteFiles ==
  <<F_index_html, F_api_id_ts, F_api_hello, F_api_c_py, F_api_b_index_js,
    F_public_index_html, F_api_a_js, F_api_a_x_js>>

RouteInputs ==
  {Input(fs, NoPkg, Options(Undef, fns, FALSE, NoSettings, clean, slash, miss)) :
     fs \in FileLists(RouteFiles),
     fns \in {<<>>, <<Entry(K_api_hello, RuntimeFunc)>>},
     clean \in BOOLEAN,
     slash \in BOOLEAN,
     miss \in BOOLEAN}

SpecRoutes == InitWith(RouteInputs) /\ [][Next]_vars

\* --- inputs that take every exit

ExitFiles ==
  <<F_package_json, F_api_name_ts, F_api_a_js, F_api_id_ts, F_index_html, F_api_id_id_js>>

ExitInputs ==
  {Input(fs, p, Options(tag, fns, FALSE, ProjectSettings(Undef, Undef, build, Undef),
                        FALSE, FALSE, FALSE)) :
     fs \in FileListsBothWays(ExitFiles),
     p \in {NoPkg, Pkg(FALSE, FALSE), Pkg(TRUE, FALSE)},
     fns \in {<<>>, <<Entry(K_api_all, MemoryFunc)>>, <<Entry(K_other, MemoryFunc)>>,
              <<Entry(K_api_a_js, BadMemoryFunc)>>},
     build \in {Undef, Some(<<>>)},
     tag \in {Undef, Some(S_canary)}}

Spec == InitWith(ExitInputs) /\ [][Next]_vars

\* ------------------------------------------------------------------------
\* getAbsolutePath on its own: one call per path, the way pathOccurrences
\* calls it for fileName and for every other file
\* ------------------------------------------------------------------------

MaxPathLength == 5

MaxSegments == 2

PathChars == {"a", "1", ".", "[", "]", "/"}

\* every relative path of at most MaxPathLength characters: no leading or
\* trailing slash, no empty segment
CharPaths ==
  {p \in UNION {[1..n -> PathChars] : n \in 1..MaxPathLength} :
     /\ p[1] # "/"
     /\ p[Len(p)] # "/"
     /\ \A k \in 1..(Len(p) - 1) : ~(p[k] = "/" /\ p[k + 1] = "/")}

\* segments with and without a placeholder, with and without an extension
PathSegments ==
  { <<"a">>, <<"1">>, <<"[", "a", "]">>, <<"[", "b", "]">>, <<"[", "a", "]", ".", "a">>, <<"1", ".", "a">> }

\* every path of at most MaxSegments of these segments
SegmentPaths ==
  {Join(s, <<"/">>) : s \in UNION {[1..n -> PathSegments] : n \in 1..MaxSegments}}

\* the paths of the examples, and a file with two extensions
ExamplePaths ==
  {F_api_id_ts, F_api_name_ts, F_api_1_ts, F_api_a_js, F_api_name_x_ts, F_api_id_id_js,
   <<"a", "p", "i", "/", "a", ".", "t", "e", "s", "t", ".", "j", "s">>}

PathPair(p, q) == [fileName |-> p, file |-> q]

\* a path against itself, or two paths built from the same segments
PathInputs(pair) ==
  \/ \E p \in CharPaths : pair = PathPair(p, p)
  \/ \E p, q \in SegmentPaths : pair = PathPair(p, q)
  \/ \E p, q \in ExamplePaths : pair = PathPair(p, q)

NoPaths == [current |-> <<>>, absolute |-> <<>>, again |-> <<>>]

InitPaths ==
  /\ PathInputs(input)
  /\ files = <<input.fileName, input.file>>
  /\ pc = "resolve"
  /\ i = 1
  /\ apiBuilders = <<>>
  /\ frontendBuilder = NoBuilder
  /\ usedFunctions = {}
  /\ absolutePathCache = {}
  /\ hasUsedOutputDirectory = FALSE
  /\ hasNoneApiFiles = FALSE
  /\ hasNextApiFiles = FALSE
  /\ fallbackEntrypoint = Undef
  /\ apiRoutes = <<>>
  /\ dynamicRoutes = <<>>
  /\ warnings = <<>>
  /\ result = NoPaths

\* currentAbsolutePath and absolutePath of lines 730-751, and the absolute
\* path of currentAbsolutePath itself
ResolvePaths ==
  /\ pc = "resolve"
  /\ LET Resolved(current) ==
           [current |-> current,
            absolute |-> getAbsolutePath(input.file),
            again |-> getAbsolutePath(current)]
     IN result' = Resolved(getAbsolutePath(input.fileName))
  /\ pc' = "resolved"
  /\ UNCHANGED <<input, files, i, apiBuilders, frontendBuilder, usedFunctions,
                 absolutePathCache, hasUsedOutputDirectory, hasNoneApiFiles,
                 hasNextApiFiles, fallbackEntrypoint, apiRoutes, dynamicRoutes, warnings>>

SpecPaths == InitPaths /\ [][ResolvePaths]_vars

\* ------------------------------------------------------------------------
\* createRouteFromPath on its own: the route of one file, compared with the
\* routes of the other files compiled under the same options
\* ------------------------------------------------------------------------

MaxNameLength == 2

NameChars == {"a", "b", ".", "(", "|"}

\* the last segments: every base name of at most MaxNameLength characters
\* but `.` and `..`, and index files
BaseNames ==
  (UNION {[1..n -> NameChars] : n \in 1..MaxNameLength} \ { <<".">>, T_Dot_Dot })
    \cup { S_index, <<"i", "n", "d", "e", "x", ".", "a">>, <<"i", "n", "d", "e", "x", ".", "b">>, <<"a", ".", "b", ".", "a">> }

\* the directories: none, one, or one that is named index
Directories == { <<>>, <<"a", "/">>, <<"i", "n", "d", "e", "x", "/">> }

\* no segment of a static path is a placeholder
StaticPaths == {d \o n : d \in Directories, n \in BaseNames}

RouteCall(filePath, featHandleMiss, cleanUrls) ==
  [filePath |-> filePath, featHandleMiss |-> featHandleMiss, cleanUrls |-> cleanUrls]

NoCompiled == [route |-> HandleRoute(""), sameSrc |-> {}]

InitCompile ==
  /\ \E p \in StaticPaths, miss \in BOOLEAN, clean \in BOOLEAN :
       input = RouteCall(p, miss, clean)
  /\ files = <<input.filePath>>
  /\ pc = "compile"
  /\ i = 1
  /\ apiBuilders = <<>>
  /\ frontendBuilder = NoBuilder
  /\ usedFunctions = {}
  /\ absolutePathCache = {}
  /\ hasUsedOutputDirectory = FALSE
  /\ hasNoneApiFiles = FALSE
  /\ hasNextApiFiles = FALSE
  /\ fallbackEntrypoint = Undef
  /\ apiRoutes = <<>>
  /\ dynamicRoutes = <<>>
  /\ warnings = <<>>
  /\ result = NoCompiled

\* the src of a path under the options of the call
SrcOf(filePath) ==
  createRouteFromPath(filePath, input.featHandleMiss, input.cleanUrls).route.src

\* the route of filePath, and the static paths whose route has the same src
CompileRoute ==
  /\ pc = "compile"
  /\ LET Compiled(out) ==
           [route |-> out.route,
            sameSrc |-> {q \in StaticPaths : SrcOf(q) = out.route.src}]
     IN result' = Compiled(createRouteFromPath(input.filePath, input.featHandleMiss,
                                               input.cleanUrls))
  /\ pc' = "compiled"
  /\ UNCHANGED <<input, files, i, apiBuilders, frontendBuilder, usedFunctions,
                 absolutePathCache, hasUsedOutputDirectory, hasNoneApiFiles,
                 hasNextApiFiles, fallbackEntrypoint, apiRoutes, dynamicRoutes, warnings>>

SpecCompile == InitCompile /\ [][CompileRoute]_vars

\* ------------------------------------------------------------------------
\* detectBuilders on file lists given in every order
\* ------------------------------------------------------------------------

\* API files of one and of two segments below `api`, static and dynamic, and
\* a file that is no API file
F_api_dir_x_js ==  \* api/a/x.js
  <<"a", "p", "i", "/", "a", "/", "x", ".", "j", "s">>

OrderFiles ==
  {F_api_a_js, F_api_b_index_js, F_api_id_ts, F_api_dir_x_js, F_api_name_x_ts, F_api_c_py,
   F_index_html}

\* the lists of at most MaxFiles distinct files, in every order
FilePermutations(universe) ==
  {fs \in UNION {[1..n -> universe] : n \in 0..MaxFiles} :
     \A j, k \in 1..Len(fs) : j # k => fs[j] # fs[k]}

OrderInputs ==
  {Input(fs, NoPkg, Options(Undef, <<>>, FALSE, NoSettings, FALSE, FALSE, miss)) :
     fs \in FilePermutations(OrderFiles),
     miss \in BOOLEAN}

SpecOrder == InitWith(OrderInputs) /\ [][Next]_vars

\* ------------------------------------------------------------------------
\* Properties
\* ------------------------------------------------------------------------

Done == pc = "done"

Failed == ~result.errors.isNull

Succeeded == Done /\ result.errors.isNull

\* the code of the reported error, "" when there is none
ErrorCode == IF Failed THEN result.errors.items[1].code ELSE ""

ConflictCodes == {"conflicting_path_segment", "conflicting_file_path"}

ValidFunctions == validateFunctions(options) = NoError

\* the file is a candidate API file: it yields an API builder
IsApi(f) == maybeGetApiBuilder(f, getApiMatches(options), options).some

FileSet == {input.files[k] : k \in 1..Len(input.files)}

AllNull ==
  /\ result.builders.isNull
  /\ result.defaultRoutes.isNull
  /\ result.redirectRoutes.isNull
  /\ result.rewriteRoutes.isNull

\* C1: a result with errors holds exactly one error and null builders and
\* null route lists; a result without errors holds three route lists. This
\* holds on each of the four error exits.
C1_ErrorsExcludeResults ==
  Done =>
    /\ Failed =>
         /\ Len(result.errors.items) = 1
         /\ AllNull
         /\ ErrorCode \in ConflictCodes
                          \cup {"missing_build_script", "unused_function",
                                "invalid_function_memory"}
    /\ ~Failed =>
         /\ ~result.defaultRoutes.isNull
         /\ ~result.redirectRoutes.isNull
         /\ ~result.rewriteRoutes.isNull

\* the missing-build-script exit is taken after API files were seen to give
\* no builder (the exit that returns the errors array itself)
C1_Witness ==
  /\ Done
  /\ ErrorCode = "missing_build_script"
  /\ i > Len(files)
  /\ Len(files) > 1
  /\ AllNull

\* a segment with the name of its placeholder left out: [id].ts gives [].ts
Unnamed(segment) ==
  IF segment # <<>> /\ segment[1] = "[" /\ LastIndexOf(segment, "]") > 0
  THEN <<"[", "]">> \o Drop(segment, LastIndexOf(segment, "]"))
  ELSE segment

\* the two files differ only in the name of a placeholder at one position
Twins(f, g) ==
  LET Same(a, b) ==
        /\ Len(a) = Len(b)
        /\ \A k \in 1..Len(a) : Unnamed(a[k]) = Unnamed(b[k])
        /\ Cardinality({k \in 1..Len(a) : a[k] # b[k]}) = 1
  IN Same(Split(f, "/"), Split(g, "/"))

\* C2 as stated: whenever the list holds two files that differ only in the
\* name of a placeholder, the call reports conflicting_path_segment or
\* conflicting_file_path and no builders (the functions map being valid).
C2_AnyTwinsConflict ==
  (Done /\ ValidFunctions /\ \E f, g \in FileSet : Twins(f, g))
    => (ErrorCode \in ConflictCodes /\ result.builders.isNull)

\* C2, amended: whenever the list holds two files that differ only in the
\* name of a placeholder and one of the two is a candidate API file, the call
\* reports conflicting_path_segment or conflicting_file_path and all result
\* lists are null.
C2_ApiTwinsConflict ==
  (Done /\ ValidFunctions /\ \E f, g \in FileSet : Twins(f, g) /\ IsApi(f))
    => (ErrorCode \in ConflictCodes /\ AllNull)

\* two candidate API files that differ in a placeholder directory are
\* reported, the third file of the list notwithstanding
C2_Witness ==
  /\ Done
  /\ Len(files) = MaxFiles
  /\ Twins(F_api_a_x_js, F_api_b_x_js)
  /\ {F_api_a_x_js, F_api_b_x_js} \subseteq FileSet
  /\ IsApi(F_api_a_x_js)
  /\ ErrorCode = "conflicting_file_path"

\* the files that conflict with F: every other file of the list, candidate
\* or not, that resolves to the path of F or partially matches it
ConflictsOf(F) ==
  SelectSeq(files, LAMBDA G : /\ G # F
                              /\ \/ getAbsolutePath(G) = getAbsolutePath(F)
                                 \/ partiallyMatches(F, G))

\* the sorted list has a candidate API file at k that conflicts
ConflictAt(k) ==
  /\ IsApi(files[k])
  /\ Truthy(getConflictingSegment(files[k])) \/ ConflictsOf(files[k]) # <<>>

\* C3 as stated: a file that yields no API builder is never among the
\* conflicting paths of a conflicting_file_path error.
C3_OnlyCandidatesConflict ==
  (Done /\ ErrorCode = "conflicting_file_path")
    => \A k \in 1..Len(result.errors.items[1].paths) :
         IsApi(result.errors.items[1].paths[k])

\* C3, amended: the cross-file check compares a candidate API file F with
\* every other file of the list, candidate or not. The call fails at the first
\* candidate, in sorted order, that repeats a placeholder name or conflicts
\* with some other file, and a conflicting_file_path error lists all the
\* files that resolve to the path of F or partially match it; with no such
\* candidate there is no conflict error.
C3_EveryFileIsCompared ==
  (Done /\ ValidFunctions) =>
    IF \E k \in 1..Len(files) : ConflictAt(k)
    THEN LET At(k) ==
               IF Truthy(getConflictingSegment(files[k]))
               THEN ErrorCode = "conflicting_path_segment"
               ELSE result.errors
                    = List(<<Error("conflicting_file_path", files[k],
                                   ConflictsOf(files[k]))>>)
         IN At(CHOOSE k \in 1..Len(files) :
                 ConflictAt(k) /\ \A j \in 1..(k - 1) : ~ConflictAt(j))
    ELSE ErrorCode \notin ConflictCodes

\* api/a.txt yields no API builder and is reported as conflicting with
\* api/a.js
C3_Witness ==
  /\ Done
  /\ ErrorCode = "conflicting_file_path"
  /\ result.errors.items[1].name = F_api_a_js
  /\ ~IsApi(F_api_a_txt)
  /\ \E k \in 1..Len(result.errors.items[1].paths) :
       result.errors.items[1].paths[k] = F_api_a_txt

\* the checks of one entry of the functions map that fail, numbered in the
\* order of C4: 1 glob too long, 2 not a non-empty object, 3 maxDuration,
\* 4 memory, 5 leading slash, 6 runtime, 7 includeFiles, 8 excludeFiles
FailedChecks(path, func) ==
  {n \in 1..8 :
     \/ n = 1 /\ Len(path) > 256
     \/ n = 2 /\ (func.kind # "object" \/ PropertyCount(func) = 0)
     \/ n = 3 /\ func.maxDuration.some
              /\ ~(\E d \in 1..900 : func.maxDuration.val = 10 * d)
     \/ n = 4 /\ func.memory.some
              /\ ~(\E m \in 2..47 : func.memory.val = 10 * 64 * m)
     \/ n = 5 /\ path # <<>> /\ path[1] = "/"
     \/ n = 6 /\ func.runtime.some
              /\ ~validSemver(Drop(func.runtime.val, LastIndexOf(func.runtime.val, "@")))
     \/ n = 7 /\ func.includeFiles.some /\ ~func.includeFiles.str
     \/ n = 8 /\ func.excludeFiles.some /\ ~func.excludeFiles.str}

\* the error of check n for the key path
CheckError(n, path) ==
  IF n = 1 THEN Error("invalid_function_glob", <<>>, <<>>)
  ELSE IF n = 2 THEN Error("invalid_function", <<>>, <<>>)
  ELSE IF n = 3 THEN Error("invalid_function_duration", <<>>, <<>>)
  ELSE IF n = 4 THEN Error("invalid_function_memory", <<>>, <<>>)
  ELSE IF n = 5 THEN Error("invalid_function_source", path, <<>>)
  ELSE IF n = 6 THEN Error("invalid_function_runtime", <<>>, <<>>)
  ELSE IF n = 7 THEN Error("invalid_function_property", T_includeFiles, <<>>)
  ELSE Error("invalid_function_property", T_excludeFiles, <<>>)

\* the entries of the functions map that fail some check
FailingEntries ==
  {k \in 1..Len(options.functions) :
     FailedChecks(options.functions[k].key, options.functions[k].func) # {}}

Least(S) == CHOOSE n \in S : \A m \in S : n <= m

\* C4: when some entry of the functions map fails a check, the call returns
\* the error of the first failing entry in declaration order and, for that
\* entry, of its first failing check in the fixed order, whatever the files
\* and the manifest; no file has been sorted or classified by then. Without a
\* failing entry no validation error is returned.
C4_FirstViolationIsReported ==
  Done =>
    IF FailingEntries # {}
    THEN LET Expected(e) ==
               /\ result.errors
                  = List(<<CheckError(Least(FailedChecks(e.key, e.func)), e.key)>>)
               /\ AllNull
               /\ files = input.files
               /\ i = 1
               /\ apiBuilders = <<>>
         IN Expected(options.functions[Least(FailingEntries)])
    ELSE ErrorCode \in ConflictCodes \cup {"", "missing_build_script", "unused_function"}

\* both entries fail, the first one on its leading slash and its runtime,
\* and the files hold a placeholder conflict and a manifest without a build
\* script: the leading slash of the first entry is reported
C4_Witness ==
  /\ Done
  /\ Len(options.functions) = 2
  /\ FailingEntries = {1, 2}
  /\ FailedChecks(options.functions[1].key, options.functions[1].func) = {5, 6}
  /\ FailedChecks(options.functions[2].key, options.functions[2].func) = {1, 4}
  /\ {F_api_id_ts, F_api_name_ts} \subseteq FileSet
  /\ pkg.present
  /\ ErrorCode = "invalid_function_source"

\* some file of the list yields an API builder
HasApiFile == \E f \in FileSet : IsApi(f)

EmptyBuildCommand == buildCommand.some /\ buildCommand.val = <<>>

EmptyOutputDirectory == outputDirectory.some /\ outputDirectory.val = <<>>

\* C5: with a valid functions map and no path conflict, the call returns
\* missing_build_script exactly when a manifest is given, it has no build
\* script, projectSettings sets no build command and no framework, neither
\* buildCommand nor outputDirectory is the empty string, no file yields an
\* API builder and ignoreBuildScript is not set.
C5_MissingBuildScriptExactly ==
  (Done /\ ValidFunctions /\ ErrorCode \notin ConflictCodes) =>
    (ErrorCode = "missing_build_script"
       <=> /\ pkg.present
           /\ ~pkg.build
           /\ ~(buildCommand.some /\ buildCommand.val # <<>>)
           /\ ~(framework.some /\ framework.val # <<>>)
           /\ ~EmptyBuildCommand
           /\ ~EmptyOutputDirectory
           /\ ~HasApiFile
           /\ ~options.ignoreBuildScript)

\* a manifest without a build script, next to an API file: the API builder
\* suppresses the error
C5_Witness ==
  /\ Succeeded
  /\ pkg.present
  /\ ~pkg.build
  /\ outputDirectory = Some(S_dist)
  /\ ~buildCommand.some
  /\ ~framework.some
  /\ ~options.ignoreBuildScript
  /\ HasApiFile
  /\ F_package_json \in FileSet

\* the static frontend a list of files gives when the frontend is forced to
\* be static: rooted at the output directory when that is not '' and a
\* non-API file lives under it; else serving the root when there are API
\* builders and files outside api/ other than package.json; else none
ForcedStaticFrontend ==
  LET Under(dir) ==
        \E f \in FileSet : ~IsApi(f) /\ StartsWith(f, dir \o <<"/">>)
      Rooted(dir) ==
        <<Builder(S_static, dir \o T_Sl_Star_Star_Sl_Star,
                  [ZeroConfig EXCEPT !.outputDirectory = Some(dir)])>>
  IN IF ~EmptyOutputDirectory
        /\ Under(IF outputDirectory.some THEN outputDirectory.val ELSE S_public)
     THEN Rooted(IF outputDirectory.some THEN outputDirectory.val ELSE S_public)
     ELSE IF /\ HasApiFile
             /\ \E f \in FileSet :
                  ~IsApi(f) /\ ~StartsWith(f, S_api) /\ f # F_package_json
     THEN <<Builder(S_static, S_rootStaticSrc, ZeroConfig)>>
     ELSE <<>>

\* C6 as stated: whenever buildCommand or outputDirectory is the empty
\* string and the call succeeds, the builders hold a static frontend builder
\* and no framework or static-build builder.
C6_AlwaysStaticFrontend ==
  (Succeeded /\ (EmptyBuildCommand \/ EmptyOutputDirectory)) =>
    /\ ~result.builders.isNull
    /\ \E k \in 1..Len(result.builders.items) : result.builders.items[k].use = S_static
    /\ \A k \in 1..Len(result.builders.items) :
         /\ ~StartsWith(result.builders.items[k].use, U_next)
         /\ ~StartsWith(result.builders.items[k].use, U_static_build)

\* C6, amended: whenever buildCommand or outputDirectory is the empty string
\* the call never fails for a missing build script and never returns a
\* framework or static-build builder; its builders are the API builders
\* followed by at most one static frontend builder, which exists only when
\* the files call for it: rooted at the output directory when that is not ''
\* and a non-API file lives under it, else serving the root when API
\* builders and other files exist; otherwise there is no frontend builder
\* (and the builders are null when there is no API builder either).
C6_StaticFrontendOrNone ==
  (Done /\ ValidFunctions /\ (EmptyBuildCommand \/ EmptyOutputDirectory)
        /\ ErrorCode \notin ConflictCodes /\ ErrorCode # "unused_function") =>
    LET Expected(all) ==
          /\ Succeeded
          /\ result.builders = IF all = <<>> THEN Null ELSE List(all)
          /\ \A k \in 1..Len(all) :
               /\ ~StartsWith(all[k].use, U_next)
               /\ ~StartsWith(all[k].use, U_static_build)
    IN Expected(apiBuilders \o ForcedStaticFrontend)

\* outputDirectory is '' next to a manifest with a build script and a
\* framework: the frontend serves the root, statically
C6_Witness ==
  /\ Succeeded
  /\ EmptyOutputDirectory
  /\ pkg.present /\ pkg.build
  /\ framework = Some(S_hugo)
  /\ buildCommand = Some(S_make)
  /\ {F_public_index_html, F_api_a_js} \subseteq FileSet
  /\ result.builders.items[Len(result.builders.items)]
       = Builder(S_static, S_rootStaticSrc, ZeroConfig)

\* the declared globs that some candidate API file was matched to
MatchedGlobs ==
  {getFunction(f, options).fnPattern.val :
     f \in {g \in FileSet : IsApi(g) /\ getFunction(g, options).found}}

\* the frontend builder is the Next.js handler
NextFrontend == frontendBuilder.some /\ StartsWith(frontendBuilder.val.use, U_next)

\* the declared globs matched to no API builder and not tolerated, in
\* declaration order
LeftoverGlobs ==
  SelectSeq(Keys(options.functions),
            LAMBDA key :
              /\ key \notin MatchedGlobs
              /\ ~(/\ NextFrontend
                    /\ (StartsWith(key, T_pages_Sl) \/ StartsWith(key, T_src_Sl_pages))))

\* C7 as stated: once classification is over, a declared glob matched to no
\* API builder (and not tolerated by the Next.js handler) makes the call
\* return unused_function.
C7_LeftoverAlwaysReported ==
  (Done /\ ValidFunctions /\ i > Len(files) /\ LeftoverGlobs # <<>>)
    => ErrorCode = "unused_function"

\* C7, amended: once classification is over and unless the call fails for a
\* missing build script (that exit is taken before the unused globs are
\* looked at), a declared glob matched to no API builder makes the call
\* return unused_function naming the first such glob in declaration order,
\* with null builders and routes; globs starting with `pages/` or `src/pages`
\* are tolerated when the frontend builder is the Next.js handler, and only
\* then. A call succeeds only if no such glob is left.
C7_LeftoverReportedUnlessNoBuildScript ==
  (Done /\ ValidFunctions /\ i > Len(files) /\ ErrorCode # "missing_build_script") =>
    IF LeftoverGlobs # <<>>
    THEN /\ result.errors = List(<<Error("unused_function", LeftoverGlobs[1], <<>>)>>)
         /\ AllNull
    ELSE Succeeded

\* a glob is copied into the config of a static-build frontend and reported
\* as unused all the same, after a glob that an API file consumed
C7_Witness ==
  /\ Done
  /\ frontendBuilder.some
  /\ StartsWith(frontendBuilder.val.use, U_static_build)
  /\ Len(frontendBuilder.val.config.functions) = 1
  /\ frontendBuilder.val.config.functions[1].key = K_pages_all
  /\ Keys(options.functions) = <<K_api_a_js, K_pages_all>>
  /\ ErrorCode = "unused_function"
  /\ result.errors.items[1].name = K_pages_all

\* the route of an API builder
ApiRouteOf(builder) ==
  createRouteFromPath(builder.src, options.featHandleMiss, options.cleanUrls).route

RoutesOf(builders) == [k \in 1..Len(builders) |-> ApiRouteOf(builders[k])]

\* the 404 rule for `^/api(/.*)?$`
ApiNotFound(cont) ==
  [src |-> <<"^", "/", "a", "p", "i", "(", "/", ".", "*", ")", "?", "$">>, dest |-> Undef, check |-> FALSE,
   status |-> 404, continue |-> cont, handle |-> "", location |-> Undef]

\* the positions of list where rule occurs
Positions(list, rule) == {k \in 1..Len(list) : list[k] = rule}

\* the positions of the rewrite of `/(.*)` in defaultRoutes
RewritePositions ==
  {k \in 1..Len(result.defaultRoutes.items) :
     result.defaultRoutes.items[k].src = <<"/", "(", ".", "*", ")">>}

\* C8: in legacy mode a successful call returns in defaultRoutes one route
\* per API builder, in the order the API builders were classified (that of
\* the sorted files), immediately followed by the 404 rule for
\* `^/api(/.*)?$` exactly when there is an API route; nothing follows the 404
\* rule but the rewrite of `/(.*)` into the output directory; redirectRoutes
\* and rewriteRoutes are empty.
C8_LegacyRoutesThenNotFound ==
  (Succeeded /\ ~options.featHandleMiss) =>
    LET Ordered(routes, n) ==
          /\ [k \in 1..n |-> apiBuilders[k].src] = SelectSeq(files, IsApi)
          /\ Len(routes) >= n
          /\ SubSeq(routes, 1, n) = RoutesOf(apiBuilders)
          /\ Positions(routes, ApiNotFound(FALSE)) = IF n > 0 THEN {n + 1} ELSE {}
          /\ \A k \in 1..Len(routes) : routes[k].status = 404 => routes[k] = ApiNotFound(FALSE)
          /\ \A k \in (IF n > 0 THEN n + 2 ELSE 1)..Len(routes) :
               k = Len(routes) /\ k \in RewritePositions
          /\ result.redirectRoutes = List(<<>>)
          /\ result.rewriteRoutes = List(<<>>)
    IN Ordered(result.defaultRoutes.items, Len(apiBuilders))

\* three API files, given in another order than they are classified in
C8_Witness ==
  /\ Succeeded
  /\ ~options.featHandleMiss
  /\ Len(apiBuilders) = MaxFiles
  /\ input.files # files
  /\ Len(result.defaultRoutes.items) = MaxFiles + 1
  /\ result.defaultRoutes.items[MaxFiles + 1] = ApiNotFound(FALSE)

\* C9 as stated: in legacy mode the rewrite of `/(.*)` is appended to
\* defaultRoutes only for a static frontend builder rooted at
\* `<outputDirectory>/**/*`, as the last route and into that directory; a
\* static frontend that serves the project root gets no rewrite; in
\* miss-handling mode there is no rewrite.
C9_RewriteOnlyIntoKnownDirectory ==
  Succeeded =>
    /\ options.featHandleMiss => RewritePositions = {}
    /\ RewritePositions # {} =>
         /\ frontendBuilder.some
         /\ frontendBuilder.val.use = S_static
         /\ frontendBuilder.val.config.outputDirectory.some
         /\ frontendBuilder.val.src
              = frontendBuilder.val.config.outputDirectory.val \o T_Sl_Star_Star_Sl_Star
         /\ RewritePositions = {Len(result.defaultRoutes.items)}
         /\ result.defaultRoutes.items[Len(result.defaultRoutes.items)].dest
              = Some(<<"/">> \o frontendBuilder.val.config.outputDirectory.val \o T_Sl_Dlr_1)
    /\ (frontendBuilder.some /\ frontendBuilder.val.src = S_rootStaticSrc)
         => RewritePositions = {}

\* some segment of the path is a placeholder
HasPlaceholder(path) ==
  \E k \in 1..Len(Split(path, "/")) : getSegmentName(Split(path, "/")[k]).some

\* what C10 says of rewriteRoutes: the dynamic API routes in classification
\* order, then the 404 rule with `continue: true`; the other API routes are
\* in none of the three lists
DynamicRoutesThenNotFound ==
  /\ result.rewriteRoutes.items
       = RoutesOf(SelectSeq(apiBuilders, LAMBDA b : HasPlaceholder(b.src)))
         \o <<ApiNotFound(TRUE)>>
  /\ \A k \in 1..Len(apiBuilders) :
       ~HasPlaceholder(apiBuilders[k].src) =>
         /\ Positions(result.rewriteRoutes.items, ApiRouteOf(apiBuilders[k])) = {}
         /\ Positions(result.redirectRoutes.items, ApiRouteOf(apiBuilders[k])) = {}
         /\ Positions(result.defaultRoutes.items, ApiRouteOf(apiBuilders[k])) = {}

\* what C10 says of the other two lists
ExtensionRules ==
  IF options.cleanUrls
  THEN /\ Len(result.redirectRoutes.items) = 2
       /\ \A k \in 1..2 : result.redirectRoutes.items[k].status = 308
       /\ \A k \in 1..Len(result.defaultRoutes.items) :
            result.defaultRoutes.items[k].handle # "miss"
  ELSE /\ Len(result.defaultRoutes.items) = 2
       /\ result.defaultRoutes.items[1]
            = [src |-> <<>>, dest |-> Undef, check |-> FALSE, status |-> 0,
               continue |-> FALSE, handle |-> "miss", location |-> Undef]
       /\ result.defaultRoutes.items[2].check
       /\ result.defaultRoutes.items[2].dest = Some(<<"/", "a", "p", "i", "/", "$", "1">>)
       /\ result.redirectRoutes.items = <<>>

\* C10 as stated: in miss-handling mode with at least one API route,
\* rewriteRoutes is the dynamic API routes followed by the continuing 404
\* rule, and the redirects (with cleanUrls) or the miss marker and its rule
\* (without) are always there.
C10_ExtensionRulesAlways ==
  (Succeeded /\ options.featHandleMiss /\ Len(apiBuilders) > 0) =>
    (DynamicRoutesThenNotFound /\ ExtensionRules)

\* C10, amended: in miss-handling mode with at least one API route,
\* rewriteRoutes is the dynamic API routes in classification order followed
\* by the 404 rule for `^/api(/.*)?$` with `continue: true`, and the other
\* API routes are in none of the lists. When some API file has an extension,
\* cleanUrls gives exactly two status-308 redirects and no miss marker, and
\* its absence gives the miss marker followed by one rule with
\* `check: true`, redirectRoutes being empty. When no API file has an
\* extension, redirectRoutes and defaultRoutes are both empty.
C10_ExtensionRulesWhenExtensions ==
  (Succeeded /\ options.featHandleMiss /\ Len(apiBuilders) > 0) =>
    /\ DynamicRoutesThenNotFound
    /\ IF \E k \in 1..Len(apiBuilders) : extname(apiBuilders[k].src) # <<>>
       THEN ExtensionRules
       ELSE /\ result.redirectRoutes.items = <<>>
            /\ result.defaultRoutes.items = <<>>

\* a dynamic and a plain API file next to one without an extension, with
\* cleanUrls: one rewrite before the 404 rule, two redirects
C10_Witness ==
  /\ Succeeded
  /\ options.featHandleMiss
  /\ options.cleanUrls
  /\ FileSet = {F_api_id_ts, F_api_a_js, F_api_hello}
  /\ Len(apiBuilders) = 3
  /\ Len(result.rewriteRoutes.items) = 2
  /\ result.rewriteRoutes.items[1].dest = Some(<<"/", "a", "p", "i", "/", "[", "i", "d", "]", "?", "i", "d", "=", "$", "1">>)
  /\ Len(result.redirectRoutes.items) = 2

\* ------------------------------------------------------------------------
\* C11: getAbsolutePath
\* ------------------------------------------------------------------------

Resolved == pc = "resolved"

\* a segment holds a bracketed part: a '[' with a ']' somewhere after it
Bracketed(segment) ==
  \E a, b \in 1..Len(segment) : a < b /\ segment[a] = "[" /\ segment[b] = "]"

NoPlaceholderLeft(path) ==
  \A k \in 1..Len(Split(path, "/")) : ~Bracketed(Split(path, "/")[k])

\* the segment is a placeholder (getSegmentName finds a name) or the
\* sentinel `1`, whatever its extension
PlaceholderOrSentinel(segment) ==
  getSegmentName(segment).some \/ parsePath(segment).name = <<"1">>

\* the two paths differ only in the name of a placeholder or in having the
\* sentinel `1` in place of a placeholder
SameButPlaceholders(p, q) ==
  LET Same(a, b) ==
        /\ Len(a) = Len(b)
        /\ \A k \in 1..Len(a) :
             \/ a[k] = b[k]
             \/ /\ PlaceholderOrSentinel(a[k])
                /\ PlaceholderOrSentinel(b[k])
                /\ extname(a[k]) = extname(b[k])
  IN Same(Split(p, "/"), Split(q, "/"))

\* what C11 says of two paths alike but for their placeholders, and of what
\* is left in a resolved path
ResolvesPlaceholders ==
  /\ NoPlaceholderLeft(result.current)
  /\ SameButPlaceholders(input.fileName, input.file) => result.absolute = result.current

WithoutExtension(path) == SubSeq(path, 1, Len(path) - Len(extname(path)))

\* C11 as stated: resolving a resolved path gives the same path again; no
\* bracketed placeholder is left in a resolved path; two paths that differ
\* only in a placeholder name, or in the sentinel `1` standing for a
\* placeholder, resolve to the same path.
C11_ResolvingTwiceIsResolvingOnce ==
  Resolved => (result.again = result.current /\ ResolvesPlaceholders)

\* C11, amended: resolving drops one extension of the last segment each time,
\* so resolving a resolved path gives the same path again exactly when the
\* resolved path has no extension left; no bracketed placeholder is left in a
\* resolved path; two paths that differ only in a placeholder name, or in the
\* sentinel `1` standing for a placeholder, resolve to the same path.
C11_ResolvingAgainDropsAnExtension ==
  Resolved =>
    /\ result.again = WithoutExtension(result.current)
    /\ (result.again = result.current) <=> (extname(result.current) = <<>>)
    /\ ResolvesPlaceholders

C11_Witness ==
  /\ Resolved
  /\ input.fileName = <<"a", "p", "i", "/", "[", "i", "d", "]", ".", "t", "s">>
  /\ input.file = <<"a", "p", "i", "/", "1", ".", "t", "s">>
  /\ result.current = <<"a", "p", "i", "/", "1">>
  /\ result.absolute = result.current
  /\ result.again = result.current

\* ------------------------------------------------------------------------
\* C12: createRouteFromPath on static paths
\* ------------------------------------------------------------------------

Compiled == pc = "compiled"

\* the static paths with the directory and the name of path, whatever their
\* extension
SameButExtension(path) ==
  {q \in StaticPaths : WithoutExtension(q) = WithoutExtension(path)}

\* C12 as stated: under every combination of featHandleMiss and cleanUrls,
\* two distinct paths without placeholder segment never compile to the same
\* `src`.
C12_DistinctStaticPathsDistinctSrc ==
  Compiled => result.sameSrc = {input.filePath}

\* C12, amended: two distinct paths without placeholder segment compile to
\* the same `src` exactly when featHandleMiss and cleanUrls are both set and
\* the paths differ only in their extension; under the three other
\* combinations of the flags, distinct paths never share a `src`.
C12_SameSrcOnlyWithoutExtension ==
  Compiled =>
    /\ ~HasPlaceholder(input.filePath)
    /\ result.sameSrc = IF input.featHandleMiss /\ input.cleanUrls
                        THEN SameButExtension(input.filePath)
                        ELSE {input.filePath}

C12_Witness ==
  /\ Compiled
  /\ input.filePath = <<"a", "/", "i", "n", "d", "e", "x", ".", "a">>
  /\ ~input.featHandleMiss
  /\ input.cleanUrls
  /\ result.route.src = <<"^", "/", "a", "(", "/", "|", "/", "i", "n", "d", "e", "x", "|", "/", "i", "n", "d", "e", "x", "\\", ".", "a", ")", "?", "$">>
  /\ result.sameSrc = {input.filePath}
  /\ <<"a", "/", "i", "n", "d", "e", "x", ".", "b">> \in StaticPaths
  /\ <<"a", "/", "i", "n", "d", "e", "x">> \in StaticPaths

\* ------------------------------------------------------------------------
\* C13, C14: the order of classification
\* ------------------------------------------------------------------------

\* the paths of the API builders, in the order they were classified
ApiPaths == [k \in 1..Len(apiBuilders) |-> apiBuilders[k].src]

\* the number of placeholder segments at the end of the path with no other
\* segment after them
TrailingPlaceholders(path) ==
  LET Trailing(s) ==
        Cardinality({k \in 1..Len(s) : \A m \in k..Len(s) : getSegmentName(s[m]).some})
  IN Trailing(Split(path, "/"))

\* a is classified before b: more segments first, then fewer trailing
\* placeholders, then the alphabet
ClassifiedBefore(a, b) ==
  LET Compare(sa, sb, ta, tb) ==
        \/ sa > sb
        \/ sa = sb /\ ta < tb
        \/ sa = sb /\ ta = tb /\ localeCompare(a, b) < 0
  IN Compare(Len(Split(a, "/")), Len(Split(b, "/")),
             TrailingPlaceholders(a), TrailingPlaceholders(b))

\* the API builders are the first builders, and the API routes of the
\* result are theirs, in their order
ResultFollowsClassification ==
  /\ Len(apiBuilders) > 0 =>
       SubSeq(result.builders.items, 1, Len(apiBuilders)) = apiBuilders
  /\ apiRoutes = RoutesOf(apiBuilders)
  /\ IF options.featHandleMiss
     THEN Len(apiBuilders) > 0 =>
            SubSeq(result.rewriteRoutes.items, 1, Len(dynamicRoutes))
              = RoutesOf(SelectSeq(apiBuilders, LAMBDA b : HasPlaceholder(b.src)))
     ELSE SubSeq(result.defaultRoutes.items, 1, Len(apiBuilders)) = apiRoutes

Depth(path) == Len(Split(path, "/"))

\* the route of the API file at position j of the classification comes
\* before that of the file at position k, both files having as many segments,
\* the first with a placeholder and the second with none
DynamicBeforeStatic(j, k) ==
  /\ j < k
  /\ Depth(ApiPaths[j]) = Depth(ApiPaths[k])
  /\ HasPlaceholder(ApiPaths[j])
  /\ ~HasPlaceholder(ApiPaths[k])

\* C14 as stated: paths with more segments are classified first and, among
\* paths with as many segments, a path with fewer placeholder segments comes
\* before one with more, wherever the placeholders are; so in legacy mode the
\* route of a static API file precedes the route of every file of the same
\* depth that holds a placeholder.
C14_StaticBeforeDynamic ==
  (Succeeded /\ ~options.featHandleMiss) =>
    /\ \A j, k \in 1..Len(apiBuilders) :
         j < k => Depth(ApiPaths[j]) >= Depth(ApiPaths[k])
    /\ \A j, k \in 1..Len(apiBuilders) : ~DynamicBeforeStatic(j, k)
    /\ SubSeq(result.defaultRoutes.items, 1, Len(apiBuilders)) = RoutesOf(apiBuilders)

====
